---- MODULE Spec2Model ----
(***************************************************************************)
(* State-machine model of fusilli's Graph (graph.h): the builder, the      *)
(* validation driver, the compile / cache pipeline and the session guard   *)
(* of execute.  One Graph instance, one cache directory tree on disk.      *)
(* With it the handle and buffer layer (handle.h, buffer.h): the shared    *)
(* runtime instance, the Buffers and the reference counts of their views.  *)
(***************************************************************************)
EXTENDS Integers, Sequences, FiniteSets, TLC

VARIABLES
    name,            \* context.name of the Graph (getName / setName)
    isValidated,     \* Graph::isValidated_
    session,         \* Graph::session_  ("none" = nullptr, else the module loaded)
    cache,           \* Graph::cache_    (NoCache = std::nullopt)
    fs,              \* the cache files on disk: path -> content
    tensors,         \* every TensorAttr created so far, by identity (index)
    inputs,          \* Graph::fullGraphInputs_   (set of tensor identities)
    outputs,         \* Graph::fullGraphOutputs_  (set of tensor identities)
    subNodes,        \* INode::subNodes_ of the Graph, in insertion order
    inputsSorted,    \* Graph::fullGraphInputsSorted_
    outputsSorted,   \* Graph::fullGraphOutputsSorted_
    last,            \* observation of the last call: arguments and results
    hist,            \* history: which calls have ever succeeded
    instanceRefs,    \* use_count of every runtime instance ever created
    weakInstance,    \* the static weak reference of createSharedInstance
    handles,         \* every FusilliHandle created so far, by identity
    views,           \* every buffer view of the runtime: reference count, data
    buffers,         \* every Buffer object created so far, by identity
    devices,         \* every HAL device ever created: instance, references
    pack             \* the variant pack: tensor identity -> Buffer identity

vars == <<name, isValidated, session, cache, fs, tensors, inputs, outputs,
          subNodes, inputsSorted, outputsSorted, last, hist,
          instanceRefs, weakInstance, handles, views, buffers, devices,
          pack>>

-----------------------------------------------------------------------------
(* Bounds of the model *)

MaxTensors == 2
MaxNodes == 1
MaxCalls == 2
MaxCompiles == 1
MaxFaults == 1
MaxChain == 2
MaxExtent == 4
MaxKernel == 3
MaxConvStride == 3
MaxPadding == 1
MaxDilation == 2
MaxIter == 1
MaxRetryCalls == 3
MaxViewLen == 3
MaxGroups == 4

(* Input domains *)

GraphNames == {"", "n1", "n 2"}
TensorNames == {"", "a", "a_Y"}
NodeNames == {"", "a"}
Backends == {"CPU", "GFX942"}
AsmArgs == {"asmA", "asmB"}
RemoveArgs == {FALSE}

-----------------------------------------------------------------------------
(* File names and paths *)

IREE_COMPILE_INPUT_FILENAME == "iree-compile-input.mlir"
IREE_COMPILE_OUTPUT_FILENAME == "iree-compile-output.vmfb"
IREE_COMPILE_COMMAND_FILENAME == "iree-compile-command.txt"
IREE_COMPILE_PATH == "iree-compile"

FileNames == {IREE_COMPILE_INPUT_FILENAME, IREE_COMPILE_OUTPUT_FILENAME,
              IREE_COMPILE_COMMAND_FILENAME}

Absent == "<absent>"

\* The directory name made of a graph name: a character that is unsafe in a
\* directory name is replaced.  Distinct graph names give distinct
\* directories (cache paths are collision-free).
Sanitize(graphName) == IF graphName = "n 2" THEN "n_2" ELSE graphName

\* CacheFile::getPath: the cache directory, the sanitized graph name, the
\* file name.
GetPath(graphName, fileName) ==
    "cache/" \o Sanitize(graphName) \o "/" \o fileName

AllPaths == {GetPath(g, f) : g \in GraphNames, f \in FileNames}

NoCache == [set |-> FALSE, input |-> "", output |-> "", compileCommand |-> "",
            remove |-> FALSE]

\* CachedAssets(in, out, cmd), each a CacheFile(path, remove).
CachedAssets(in, out, cmd, remove) ==
    [set |-> TRUE, input |-> in, output |-> out, compileCommand |-> cmd,
     remove |-> remove]

-----------------------------------------------------------------------------
(* Backend flags and the compile command *)

\* backendFlags giving every backend the flags of the CPU backend.
backendFlags_OneList(backend) ==
    <<"--iree-hal-target-backends=llvm-cpu", "--iree-llvmcpu-target-cpu=host">>

backendFlags(backend) ==
    IF backend = "CPU"
    THEN <<"--iree-hal-target-backends=llvm-cpu", "--iree-llvmcpu-target-cpu=host">>
    ELSE <<"--iree-hal-target-backends=rocm", "--iree-hip-target=gfx942",
           "--iree-opt-level=O3">>

\* interleave(begin, end, eachFn, betweenFn) writing to a string stream.
RECURSIVE interleave(_, _)
interleave(args, between) ==
    IF Len(args) = 0 THEN ""
    ELSE IF Len(args) = 1 THEN args[1]
    ELSE args[1] \o between \o interleave(Tail(args), between)

\* buildCompileCommand putting the backend's flags after the output path.
buildCompileCommand_FlagsLast(backend, inputPath, outputPath) ==
    LET args == <<IREE_COMPILE_PATH, inputPath, "-o", outputPath>>
                  \o backendFlags(backend)
    IN interleave(args, " ") \o "\n"

buildCompileCommand(backend, inputPath, outputPath) ==
    LET args == <<IREE_COMPILE_PATH, inputPath>> \o backendFlags(backend)
                  \o <<"-o", outputPath>>
    IN interleave(args, " ") \o "\n"

\* What a successful run of the external compiler leaves in the output file:
\* determined by the input file it read and the command it was run with.
Vmfb(asm, cmd) == "vmfb[" \o asm \o "][" \o cmd \o "]"


-----------------------------------------------------------------------------
(* CacheFile operations on the file system *)

Exists(files, path) == files[path] # Absent

\* CacheFile::create: creates the (empty) file, overwriting an existing one.
CacheFile_create(files, path) == [files EXCEPT ![path] = ""]

\* CacheFile::write
CacheFile_write(files, path, content) == [files EXCEPT ![path] = content]

\* CacheFile::open fails when the file does not exist.
CacheFile_open_ok(files, path) == Exists(files, path)

\* CacheFile::read
CacheFile_read(files, path) == files[path]

\* CacheFile::~CacheFile: unlinks the file when the remove flag is set and
\* the file still exists.
CacheFile_destroy(files, path, remove) ==
    IF remove /\ Exists(files, path)
    THEN [files EXCEPT ![path] = Absent]
    ELSE files

\* The end of the life of the CacheFile objects made for the given paths.
RECURSIVE DestroyAll(_, _, _)
DestroyAll(files, paths, remove) ==
    IF paths = {} THEN files
    ELSE LET p == CHOOSE x \in paths : TRUE
         IN DestroyAll(CacheFile_destroy(files, p, remove), paths \ {p},
                       remove)

\* The end of the life of a CachedAssets value: of its three CacheFiles.
CachedAssets_destroy(files, c) ==
    IF c.set
    THEN DestroyAll(files, {c.input, c.output, c.compileCommand}, c.remove)
    ELSE files

-----------------------------------------------------------------------------
(* Graph::validateCache *)

\* validateCache rebuilding the command with the two paths exchanged.
validateCache_SwappedPaths(backend, generatedAsm) ==
    LET inPath == GetPath(name, IREE_COMPILE_INPUT_FILENAME)
        outPath == GetPath(name, IREE_COMPILE_OUTPUT_FILENAME)
        cmdPath == GetPath(name, IREE_COMPILE_COMMAND_FILENAME)
    IN  IF ~cache.set THEN "miss"
        ELSE IF cache.input # inPath THEN "miss"
        ELSE IF cache.output # outPath THEN "miss"
        ELSE IF cache.compileCommand # cmdPath THEN "miss"
        ELSE IF ~CacheFile_open_ok(fs, inPath) THEN "error"
        ELSE IF ~CacheFile_open_ok(fs, outPath) THEN "error"
        ELSE IF ~CacheFile_open_ok(fs, cmdPath) THEN "error"
        ELSE IF CacheFile_read(fs, inPath) # generatedAsm THEN "miss"
        ELSE IF CacheFile_read(fs, cmdPath)
                  # buildCompileCommand(backend, outPath, inPath) THEN "miss"
        ELSE "hit"

\* validateCache without the comparison of the recorded paths.
validateCache_NoPathCheck(backend, generatedAsm) ==
    LET inPath == GetPath(name, IREE_COMPILE_INPUT_FILENAME)
        outPath == GetPath(name, IREE_COMPILE_OUTPUT_FILENAME)
        cmdPath == GetPath(name, IREE_COMPILE_COMMAND_FILENAME)
    IN  IF ~cache.set THEN "miss"
        ELSE IF ~CacheFile_open_ok(fs, inPath) THEN "error"
        ELSE IF ~CacheFile_open_ok(fs, outPath) THEN "error"
        ELSE IF ~CacheFile_open_ok(fs, cmdPath) THEN "error"
        ELSE IF CacheFile_read(fs, inPath) # generatedAsm THEN "miss"
        ELSE IF CacheFile_read(fs, cmdPath)
                  # buildCompileCommand(backend, inPath, outPath) THEN "miss"
        ELSE "hit"

\* validateCache trusting the files on disk: no look at the cache record.
validateCache_TrustDisk(backend, generatedAsm) ==
    LET inPath == GetPath(name, IREE_COMPILE_INPUT_FILENAME)
        outPath == GetPath(name, IREE_COMPILE_OUTPUT_FILENAME)
        cmdPath == GetPath(name, IREE_COMPILE_COMMAND_FILENAME)
    IN  IF ~CacheFile_open_ok(fs, inPath) THEN "miss"
        ELSE IF ~CacheFile_open_ok(fs, outPath) THEN "miss"
        ELSE IF ~CacheFile_open_ok(fs, cmdPath) THEN "miss"
        ELSE IF CacheFile_read(fs, inPath) # generatedAsm THEN "miss"
        ELSE IF CacheFile_read(fs, cmdPath)
                  # buildCompileCommand(backend, inPath, outPath) THEN "miss"
        ELSE "hit"

\* validateCache without the comparison of the stored assembly.
validateCache_NoAsmCheck(backend, generatedAsm) ==
    LET inPath == GetPath(name, IREE_COMPILE_INPUT_FILENAME)
        outPath == GetPath(name, IREE_COMPILE_OUTPUT_FILENAME)
        cmdPath == GetPath(name, IREE_COMPILE_COMMAND_FILENAME)
    IN  IF ~cache.set THEN "miss"
        ELSE IF cache.input # inPath THEN "miss"
        ELSE IF cache.output # outPath THEN "miss"
        ELSE IF cache.compileCommand # cmdPath THEN "miss"
        ELSE IF ~CacheFile_open_ok(fs, inPath) THEN "error"
        ELSE IF ~CacheFile_open_ok(fs, outPath) THEN "error"
        ELSE IF ~CacheFile_open_ok(fs, cmdPath) THEN "error"
        ELSE IF CacheFile_read(fs, cmdPath)
                  # buildCompileCommand(backend, inPath, outPath) THEN "miss"
        ELSE "hit"

\* The outcome of validateCache(handle, generatedAsm): ok(true) is "hit",
\* ok(false) is "miss", an error returned by CacheFile::open is "error".
validateCache(backend, generatedAsm) ==
    LET inPath == GetPath(name, IREE_COMPILE_INPUT_FILENAME)
        outPath == GetPath(name, IREE_COMPILE_OUTPUT_FILENAME)
        cmdPath == GetPath(name, IREE_COMPILE_COMMAND_FILENAME)
    IN  IF ~cache.set THEN "miss"
        ELSE IF cache.input # inPath THEN "miss"
        ELSE IF cache.output # outPath THEN "miss"
        ELSE IF cache.compileCommand # cmdPath THEN "miss"
        ELSE IF ~CacheFile_open_ok(fs, inPath) THEN "error"
        ELSE IF ~CacheFile_open_ok(fs, outPath) THEN "error"
        ELSE IF ~CacheFile_open_ok(fs, cmdPath) THEN "error"
        ELSE IF CacheFile_read(fs, inPath) # generatedAsm THEN "miss"
        ELSE IF CacheFile_read(fs, cmdPath)
                  # buildCompileCommand(backend, inPath, outPath) THEN "miss"
        ELSE "hit"

-----------------------------------------------------------------------------
(* Graph::generateCompiledArtifact *)

\* How one run of generateCompiledArtifact goes, as far as the environment
\* decides it: which file operation fails (if any), which files the
\* CacheFile::create calls had created before a failing one, and the exit
\* code of the external compiler.  The three create calls are arguments of
\* one constructor call, so their order is the compiler's choice: left to
\* right (input, output, command) or right to left.
CreatedBeforeFailure ==
    {{}, {IREE_COMPILE_INPUT_FILENAME},
     {IREE_COMPILE_INPUT_FILENAME, IREE_COMPILE_OUTPUT_FILENAME},
     {IREE_COMPILE_COMMAND_FILENAME},
     {IREE_COMPILE_COMMAND_FILENAME, IREE_COMPILE_OUTPUT_FILENAME}}

Outcomes ==
    {[fail |-> "none", created |-> FileNames, exit |-> e] : e \in {0, 1}}
    \cup {[fail |-> "create", created |-> c, exit |-> 0] :
            c \in CreatedBeforeFailure}
    \cup {[fail |-> f, created |-> FileNames, exit |-> 0] :
            f \in {"writeInput", "writeCommand"}}

\* The outcomes in which no file operation fails.
CompilerOutcomes == {o \in Outcomes : o.fail = "none"}

RECURSIVE CreateAll(_, _, _)
CreateAll(files, graphName, toCreate) ==
    IF toCreate = {} THEN files
    ELSE LET f == CHOOSE x \in toCreate : TRUE
         IN CreateAll(CacheFile_create(files, GetPath(graphName, f)),
                      graphName, toCreate \ {f})

\* generateCompiledArtifact invoking the compiler before it writes the
\* command file.
generateCompiledArtifact_RunFirst(backend, generatedAsm, remove, o) ==
    LET inPath == GetPath(name, IREE_COMPILE_INPUT_FILENAME)
        outPath == GetPath(name, IREE_COMPILE_OUTPUT_FILENAME)
        cmdPath == GetPath(name, IREE_COMPILE_COMMAND_FILENAME)
        made == CachedAssets(inPath, outPath, cmdPath, remove)
        fs1 == CreateAll(fs, name, o.created)
        w1 == {GetPath(name, f) : f \in o.created}
        fs2 == CacheFile_write(fs1, inPath, generatedAsm)
        cmd == buildCompileCommand(backend, inPath, outPath)
        run == [asm |-> CacheFile_read(fs2, inPath), cmd |-> cmd]
        fs3 == IF o.exit = 0
               THEN [fs2 EXCEPT ![outPath] = Vmfb(run.asm, run.cmd)]
               ELSE fs2
        fs4 == CacheFile_write(fs3, cmdPath, cmd)
    IN  IF o.fail = "create"
        THEN [err |-> "FileSystemFailure", cache |-> NoCache,
              fs |-> DestroyAll(fs1, w1, remove),
              runs |-> <<>>, writes |-> w1]
        ELSE IF o.fail = "writeInput"
        THEN [err |-> "FileSystemFailure", cache |-> NoCache,
              fs |-> DestroyAll(fs1, w1, remove),
              runs |-> <<>>, writes |-> w1]
        ELSE IF o.exit # 0
        THEN [err |-> "CompileFailure", cache |-> NoCache,
              fs |-> DestroyAll(fs3, w1, remove),
              runs |-> <<run>>, writes |-> w1]
        ELSE IF o.fail = "writeCommand"
        THEN [err |-> "FileSystemFailure", cache |-> NoCache,
              fs |-> DestroyAll(fs3, w1, remove),
              runs |-> <<run>>, writes |-> w1]
        ELSE [err |-> "ok", cache |-> made, fs |-> fs4,
              runs |-> <<run>>, writes |-> w1]

\* Returns [err, cache, fs, runs, writes]: the error code ("ok" on success),
\* the CachedAssets built (meaningful when err = "ok"), the file system
\* after the call, the compiler invocations and the files written.  On an
\* error return the CacheFile objects made so far go out of scope.
generateCompiledArtifact(backend, generatedAsm, remove, o) ==
    LET inPath == GetPath(name, IREE_COMPILE_INPUT_FILENAME)
        outPath == GetPath(name, IREE_COMPILE_OUTPUT_FILENAME)
        cmdPath == GetPath(name, IREE_COMPILE_COMMAND_FILENAME)
        made == CachedAssets(inPath, outPath, cmdPath, remove)
        fs1 == CreateAll(fs, name, o.created)
        w1 == {GetPath(name, f) : f \in o.created}
        fs2 == CacheFile_write(fs1, inPath, generatedAsm)
        cmd == buildCompileCommand(backend, inPath, outPath)
        fs3 == CacheFile_write(fs2, cmdPath, cmd)
        run == [asm |-> CacheFile_read(fs3, inPath), cmd |-> cmd]
        fs4 == IF o.exit = 0
               THEN [fs3 EXCEPT ![outPath] = Vmfb(run.asm, run.cmd)]
               ELSE fs3
    IN  IF o.fail = "create"
        THEN [err |-> "FileSystemFailure", cache |-> NoCache,
              fs |-> DestroyAll(fs1, w1, remove),
              runs |-> <<>>, writes |-> w1]
        ELSE IF o.fail = "writeInput"
        THEN [err |-> "FileSystemFailure", cache |-> NoCache,
              fs |-> DestroyAll(fs1, w1, remove),
              runs |-> <<>>, writes |-> w1]
        ELSE IF o.fail = "writeCommand"
        THEN [err |-> "FileSystemFailure", cache |-> NoCache,
              fs |-> DestroyAll(fs2, w1, remove),
              runs |-> <<>>, writes |-> w1]
        ELSE IF o.exit # 0
        THEN [err |-> "CompileFailure", cache |-> NoCache,
              fs |-> DestroyAll(fs4, w1, remove),
              runs |-> <<run>>, writes |-> w1]
        ELSE [err |-> "ok", cache |-> made, fs |-> fs4,
              runs |-> <<run>>, writes |-> w1]

-----------------------------------------------------------------------------
(* Graph::getCompiledArtifact *)

\* getCompiledArtifact assigning cache_ before it looks at the error of
\* generateCompiledArtifact.
getCompiledArtifact_AssignFirst(backend, generatedAsm, remove, o) ==
    LET Regenerate(gen) ==
            IF gen.err # "ok"
            THEN [err |-> gen.err, ret |-> "", reCompiled |-> "unset",
                  cache |-> gen.cache, fs |-> gen.fs, vc |-> "miss",
                  runs |-> gen.runs, writes |-> gen.writes]
            ELSE [err |-> "ok", ret |-> gen.cache.output,
                  reCompiled |-> "true", cache |-> gen.cache,
                  fs |-> CachedAssets_destroy(gen.fs, cache),
                  vc |-> "miss", runs |-> gen.runs, writes |-> gen.writes]
        After(vc) ==
            IF vc = "error"
            THEN [err |-> "FileSystemFailure", ret |-> "",
                  reCompiled |-> "unset", cache |-> cache, fs |-> fs,
                  vc |-> vc, runs |-> <<>>, writes |-> {}]
            ELSE IF vc = "hit"
            THEN [err |-> "ok", ret |-> cache.output, reCompiled |-> "false",
                  cache |-> cache, fs |-> fs, vc |-> vc, runs |-> <<>>,
                  writes |-> {}]
            ELSE Regenerate(generateCompiledArtifact(backend, generatedAsm,
                                                     remove, o))
    IN  After(validateCache(backend, generatedAsm))

\* Returns [err, ret, reCompiled, cache, fs, vc, runs, writes].  reCompiled
\* is the caller's std::optional<bool>: "unset" unless the call assigns it.
\* The assignment to cache_ ends the life of the CachedAssets it replaces.
getCompiledArtifact(backend, generatedAsm, remove, o) ==
    LET Regenerate(gen) ==
            IF gen.err # "ok"
            THEN [err |-> gen.err, ret |-> "", reCompiled |-> "unset",
                  cache |-> cache, fs |-> gen.fs, vc |-> "miss",
                  runs |-> gen.runs, writes |-> gen.writes]
            ELSE [err |-> "ok", ret |-> gen.cache.output,
                  reCompiled |-> "true", cache |-> gen.cache,
                  fs |-> CachedAssets_destroy(gen.fs, cache),
                  vc |-> "miss", runs |-> gen.runs, writes |-> gen.writes]
        After(vc) ==
            IF vc = "error"
            THEN [err |-> "FileSystemFailure", ret |-> "",
                  reCompiled |-> "unset", cache |-> cache, fs |-> fs,
                  vc |-> vc, runs |-> <<>>, writes |-> {}]
            ELSE IF vc = "hit"
            THEN [err |-> "ok", ret |-> cache.output, reCompiled |-> "false",
                  cache |-> cache, fs |-> fs, vc |-> vc, runs |-> <<>>,
                  writes |-> {}]
            ELSE Regenerate(generateCompiledArtifact(backend, generatedAsm,
                                                     remove, o))
    IN  After(validateCache(backend, generatedAsm))

-----------------------------------------------------------------------------
(* Tensors, nodes and the builder *)

\* TensorAttr, as far as validation reads it: its name, whether dim / stride /
\* data type are set, and the isVirtual flag.
TensorAttr(n, dimSet, isVirtual) ==
    [name |-> n, dimSet |-> dimSet, isVirtual |-> isVirtual]

TensorName(ts, t) == ts[t].name

\* std::to_string(subNodes_.size())
to_string(n) == ToString(n)

\* Graph::outputTensor: a new virtual tensor, added to fullGraphOutputs_.
\* Returns the tensor list and the output set after the call.
outputTensor(ts, outs, n) ==
    [tensors |-> Append(ts, TensorAttr(n, FALSE, TRUE)),
     outputs |-> outs \cup {Len(ts) + 1},
     y |-> Len(ts) + 1]

\* convFProp with the node put in front of the sub-nodes, not at their end.
convFProp_Front(x, w, attrName) ==
    LET nm == IF attrName = ""
              THEN "conv_fprop_" \o to_string(Len(subNodes))
              ELSE attrName
        ts1 == IF tensors[x].name = ""
               THEN [tensors EXCEPT ![x].name = nm \o "_X"]
               ELSE tensors
        ts2 == IF ts1[w].name = ""
               THEN [ts1 EXCEPT ![w].name = nm \o "_W"]
               ELSE ts1
        out == outputTensor(ts2, outputs, nm \o "_Y")
    IN  [tensors |-> out.tensors,
         outputs |-> out.outputs,
         subNodes |-> <<[name |-> nm, X |-> x, W |-> w, Y |-> out.y]>>
                         \o subNodes]

\* Graph::convFProp(x, w, convAttr): returns the tensors, outputs and
\* sub-nodes after the call.
convFProp(x, w, attrName) ==
    LET nm == IF attrName = ""
              THEN "conv_fprop_" \o to_string(Len(subNodes))
              ELSE attrName
        ts1 == IF tensors[x].name = ""
               THEN [tensors EXCEPT ![x].name = nm \o "_X"]
               ELSE tensors
        ts2 == IF ts1[w].name = ""
               THEN [ts1 EXCEPT ![w].name = nm \o "_W"]
               ELSE ts1
        out == outputTensor(ts2, outputs, nm \o "_Y")
    IN  [tensors |-> out.tensors,
         outputs |-> out.outputs,
         subNodes |-> Append(subNodes,
                             [name |-> nm, X |-> x, W |-> w, Y |-> out.y])]

-----------------------------------------------------------------------------
(* Ordering of tensors by name (TensorAttrSortByName) *)

\* std::string operator< on the names the builder can produce, as the
\* position of the name in their lexicographic (byte-wise) order.
NameOrder ==
    <<"", "a", "a_W", "a_X", "a_Y",
      "conv_fprop_0", "conv_fprop_0_W", "conv_fprop_0_X", "conv_fprop_0_Y",
      "conv_fprop_1", "conv_fprop_1_W", "conv_fprop_1_X", "conv_fprop_1_Y",
      "conv_fprop_2", "conv_fprop_2_W", "conv_fprop_2_X", "conv_fprop_2_Y">>

Rank(n) == CHOOSE i \in 1..Len(NameOrder) : NameOrder[i] = n

\* insert(t) on a container that keeps the order of insertion.
SortedInsert_Append(ts, sorted, t) ==
    IF \E i \in 1..Len(sorted) : sorted[i] = t THEN sorted
    ELSE Append(sorted, t)

\* insert(t) on a std::multiset: t goes to its place in the order, also
\* when an element with an equivalent name is present.
SortedInsert_Multi(ts, sorted, t) ==
    LET k == Cardinality({i \in 1..Len(sorted) :
                            Rank(ts[sorted[i]].name) < Rank(ts[t].name)})
    IN SubSeq(sorted, 1, k) \o <<t>> \o SubSeq(sorted, k + 1, Len(sorted))

\* std::set<..., TensorAttrSortByName>::insert(t): no effect when an element
\* with an equivalent name is present, else t goes to its place in the order.
SortedInsert(ts, sorted, t) ==
    IF \E i \in 1..Len(sorted) : Rank(ts[sorted[i]].name) = Rank(ts[t].name)
    THEN sorted
    ELSE LET k == Cardinality({i \in 1..Len(sorted) :
                                 Rank(ts[sorted[i]].name) < Rank(ts[t].name)})
         IN SubSeq(sorted, 1, k) \o <<t>> \o SubSeq(sorted, k + 1, Len(sorted))

\* insert(first, last) over an unordered set.
RECURSIVE SortedInsertAll(_, _, _)
SortedInsertAll(ts, sorted, new) ==
    IF new = {} THEN sorted
    ELSE LET t == CHOOSE x \in new : TRUE
         IN SortedInsertAll(ts, SortedInsert(ts, sorted, t), new \ {t})

-----------------------------------------------------------------------------
(* Validation *)

\* INode::checkNodeNamesAreUnique(usedSymbols): "ok", or InvalidAttribute when
\* a node's name is in usedSymbols or is the name of an earlier node.
checkNodeNamesAreUnique(usedSymbols) ==
    IF \E i \in 1..Len(subNodes) :
          \/ subNodes[i].name \in usedSymbols
          \/ \E j \in 1..(i - 1) : subNodes[j].name = subNodes[i].name
    THEN "InvalidAttribute"
    ELSE "ok"

\* Graph::preValidateNode starting the output loop from an empty symbol set.
preValidateNode_OutputsApart ==
    LET inDup == \E t, u \in inputs : t # u /\ tensors[t].name = tensors[u].name
        inNames == {tensors[t].name : t \in inputs}
        outDup == \E t \in outputs :
                     \E u \in outputs : u # t /\ tensors[u].name = tensors[t].name
        usedSymbols == inNames \cup {tensors[t].name : t \in outputs}
    IN  IF inDup \/ outDup THEN "InvalidAttribute"
        ELSE checkNodeNamesAreUnique(usedSymbols)

\* Graph::preValidateNode: "ok" or the error code.  usedSymbols collects the
\* input names, then the output names; a name already present is an
\* InvalidAttribute.  The node names are checked against them last.
preValidateNode ==
    LET inDup == \E t, u \in inputs : t # u /\ tensors[t].name = tensors[u].name
        inNames == {tensors[t].name : t \in inputs}
        outDup == \E t \in outputs :
                     \/ tensors[t].name \in inNames
                     \/ \E u \in outputs : u # t /\ tensors[u].name = tensors[t].name
        usedSymbols == inNames \cup {tensors[t].name : t \in outputs}
    IN  IF inDup \/ outDup THEN "InvalidAttribute"
        ELSE checkNodeNamesAreUnique(usedSymbols)

\* insert(first, last) with the elements arriving in the order of seq.
RECURSIVE SortedInsertSeq(_, _, _)
SortedInsertSeq(ts, sorted, seq) ==
    IF Len(seq) = 0 THEN sorted
    ELSE SortedInsertSeq(ts, SortedInsert(ts, sorted, seq[1]), Tail(seq))

\* The orders in which the iteration over an unordered set can deliver its
\* elements.
IterationOrders(set) ==
    {seq \in [1..Cardinality(set) -> set] :
        \A i, j \in 1..Cardinality(set) : i # j => seq[i] # seq[j]}

\* The elements of a set of tensors in the order of their creation.
RECURSIVE InCreationOrder(_)
InCreationOrder(set) ==
    IF set = {} THEN <<>>
    ELSE LET first == CHOOSE t \in set : \A u \in set : t <= u
         IN <<first>> \o InCreationOrder(set \ {first})

\* Graph::inferPropertiesNode filling the two views in the order in which the
\* tensors were created.
inferPropertiesNode_CreationOrder ==
    [inputsSorted |-> InCreationOrder(inputs),
     outputsSorted |-> InCreationOrder(outputs)]

\* Graph::inferPropertiesNode: fills the two sorted views.
inferPropertiesNode ==
    [inputsSorted |-> SortedInsertAll(tensors, inputsSorted, inputs),
     outputsSorted |-> SortedInsertAll(tensors, outputsSorted, outputs)]

\* validateSubtree of the sub-nodes from position i on, in insertion order:
\* a ConvFPropNode needs the dims of X and W and infers those of Y.
RECURSIVE validateSubNodes(_, _)
validateSubNodes(ts, i) ==
    IF i > Len(subNodes) THEN [err |-> "ok", tensors |-> ts, visited |-> <<>>]
    ELSE LET n == subNodes[i]
         IN IF ~(ts[n.X].dimSet /\ ts[n.W].dimSet)
            THEN [err |-> "AttributeNotSet", tensors |-> ts,
                  visited |-> <<n.name>>]
            ELSE LET rest == validateSubNodes([ts EXCEPT ![n.Y].dimSet = TRUE],
                                              i + 1)
                 IN [rest EXCEPT !.visited = <<n.name>> \o rest.visited]

\* TensorAttr::validate over a set of tensors.
tensorsValid(ts, set) == \A t \in set : ts[t].dimSet

\* INode::validateSubtree of the Graph: preValidateNode, inferPropertiesNode,
\* the sub-nodes in insertion order, postValidateNode; the first error stops
\* it.  Returns [err, tensors, inputsSorted, outputsSorted, visited]; visited
\* lists the hooks and sub-nodes reached.
validateSubtree ==
    LET same == [err |-> "ok", tensors |-> tensors,
                 inputsSorted |-> inputsSorted, outputsSorted |-> outputsSorted,
                 visited |-> <<>>]
        pre == preValidateNode
        inf == inferPropertiesNode
        sub == validateSubNodes(tensors, 1)
        afterInfer == [same EXCEPT !.inputsSorted = inf.inputsSorted,
                                   !.outputsSorted = inf.outputsSorted,
                                   !.tensors = sub.tensors]
        hooks == <<"preValidateNode", "inferPropertiesNode">> \o sub.visited
    IN  IF pre # "ok"
        THEN [same EXCEPT !.err = pre, !.visited = <<"preValidateNode">>]
        ELSE IF sub.err # "ok"
        THEN [afterInfer EXCEPT !.err = sub.err, !.visited = hooks]
        ELSE [afterInfer EXCEPT !.visited = hooks \o <<"postValidateNode">>]

\* Graph::validate raising the flag before the tensors are validated.
validate_FlagBeforeTensors ==
    LET st == validateSubtree
        same == [err |-> "ok", isValidated |-> isValidated, tensors |-> tensors,
                 inputsSorted |-> inputsSorted, outputsSorted |-> outputsSorted,
                 visited |-> <<>>]
        after == [same EXCEPT !.tensors = st.tensors,
                              !.inputsSorted = st.inputsSorted,
                              !.outputsSorted = st.outputsSorted,
                              !.visited = st.visited]
    IN  IF name = ""
        THEN [same EXCEPT !.err = "AttributeNotSet"]
        ELSE IF st.err # "ok"
        THEN [after EXCEPT !.err = st.err]
        ELSE IF ~tensorsValid(st.tensors, inputs)
        THEN [after EXCEPT !.err = "AttributeNotSet", !.isValidated = TRUE,
                           !.visited = st.visited \o <<"inputs">>]
        ELSE IF ~tensorsValid(st.tensors, outputs)
        THEN [after EXCEPT !.err = "AttributeNotSet", !.isValidated = TRUE,
                           !.visited = st.visited \o <<"inputs", "outputs">>]
        ELSE [after EXCEPT !.isValidated = TRUE,
                           !.visited = st.visited \o <<"inputs", "outputs">>]

\* Graph::validate checking the graph name after the subtree.
validate_NameCheckLate ==
    LET st == validateSubtree
        same == [err |-> "ok", isValidated |-> isValidated, tensors |-> tensors,
                 inputsSorted |-> inputsSorted, outputsSorted |-> outputsSorted,
                 visited |-> <<>>]
        after == [same EXCEPT !.tensors = st.tensors,
                              !.inputsSorted = st.inputsSorted,
                              !.outputsSorted = st.outputsSorted,
                              !.visited = st.visited]
    IN  IF st.err # "ok"
        THEN [after EXCEPT !.err = st.err]
        ELSE IF name = ""
        THEN [after EXCEPT !.err = "AttributeNotSet"]
        ELSE IF ~tensorsValid(st.tensors, inputs)
        THEN [after EXCEPT !.err = "AttributeNotSet",
                           !.visited = st.visited \o <<"inputs">>]
        ELSE IF ~tensorsValid(st.tensors, outputs)
        THEN [after EXCEPT !.err = "AttributeNotSet",
                           !.visited = st.visited \o <<"inputs", "outputs">>]
        ELSE [after EXCEPT !.isValidated = TRUE,
                           !.visited = st.visited \o <<"inputs", "outputs">>]

\* Graph::validate.  Returns [err, isValidated, tensors, inputsSorted,
\* outputsSorted, visited]; visited lists what validation has reached.
validate ==
    LET st == validateSubtree
        same == [err |-> "ok", isValidated |-> isValidated, tensors |-> tensors,
                 inputsSorted |-> inputsSorted, outputsSorted |-> outputsSorted,
                 visited |-> <<>>]
        after == [same EXCEPT !.tensors = st.tensors,
                              !.inputsSorted = st.inputsSorted,
                              !.outputsSorted = st.outputsSorted,
                              !.visited = st.visited]
    IN  IF name = ""
        THEN [same EXCEPT !.err = "AttributeNotSet"]
        ELSE IF st.err # "ok"
        THEN [after EXCEPT !.err = st.err]
        ELSE IF ~tensorsValid(st.tensors, inputs)
        THEN [after EXCEPT !.err = "AttributeNotSet",
                           !.visited = st.visited \o <<"inputs">>]
        ELSE IF ~tensorsValid(st.tensors, outputs)
        THEN [after EXCEPT !.err = "AttributeNotSet",
                           !.visited = st.visited \o <<"inputs", "outputs">>]
        ELSE [after EXCEPT !.isValidated = TRUE,
                           !.visited = st.visited \o <<"inputs", "outputs">>]

-----------------------------------------------------------------------------
(* Assembly emission, session, execute *)

RECURSIVE JoinNames(_, _)
JoinNames(ts, seq) ==
    IF Len(seq) = 0 THEN ""
    ELSE ts[seq[1]].name \o "," \o JoinNames(ts, Tail(seq))

RECURSIVE JoinNodes(_)
JoinNodes(nodes) ==
    IF Len(nodes) = 0 THEN ""
    ELSE nodes[1].name \o "(" \o tensors[nodes[1].X].name \o ","
           \o tensors[nodes[1].W].name \o ")," \o JoinNodes(Tail(nodes))

\* emitAsmSubtree: the module text, a function of the sorted outputs, the
\* sorted inputs and the nodes in insertion order.
emitAsmSubtree ==
    "module{" \o JoinNames(tensors, outputsSorted) \o ";"
       \o JoinNames(tensors, inputsSorted) \o ";" \o JoinNodes(subNodes) \o "}"

\* The names of a sequence of tensors.
Names(ts, seq) == [i \in 1..Len(seq) |-> ts[seq[i]].name]

\* The parameters of the emitted main function: the graph outputs in the
\* order of the sorted view, as destinations, then the graph inputs in the
\* order of the sorted view.
mainParameters ==
    [results |-> Names(tensors, outputsSorted),
     operands |-> Names(tensors, inputsSorted)]

\* Graph::emitAsm without the check of isValidated_.
emitAsm_NoGuard == [err |-> "ok", asm |-> emitAsmSubtree]

\* Graph::emitAsm: [err, asm].
emitAsm ==
    IF ~isValidated THEN [err |-> "NotValidated", asm |-> ""]
    ELSE [err |-> "ok", asm |-> emitAsmSubtree]

\* Graph::createPerGraphSession(handle, vmfbPath): a new session with the
\* module at vmfbPath loaded, or RuntimeFailure.  Returns [err, session].
createPerGraphSession(files, vmfbPath, sessOk) ==
    IF sessOk THEN [err |-> "ok", session |-> "session:" \o files[vmfbPath]]
    ELSE [err |-> "RuntimeFailure", session |-> session]

\* Graph::compile creating the session before looking at the error of
\* getCompiledArtifact.
compile_SessionFirst(backend, remove, o, sessOk) ==
    LET vmfb == GetPath(name, IREE_COMPILE_OUTPUT_FILENAME)
        Load(generatedAsm, art, ses) ==
            [err |-> ses.err, cache |-> art.cache, fs |-> art.fs,
             session |-> ses.session, asm |-> generatedAsm, runs |-> art.runs,
             writes |-> art.writes]
        Build(generatedAsm, art) ==
            IF art.err # "ok"
            THEN [err |-> art.err, cache |-> art.cache, fs |-> art.fs,
                  session |-> createPerGraphSession(art.fs, vmfb,
                                                    sessOk).session,
                  asm |-> generatedAsm, runs |-> art.runs,
                  writes |-> art.writes]
            ELSE Load(generatedAsm, art,
                      createPerGraphSession(art.fs, art.ret, sessOk))
        Emit(asm) ==
            IF asm.err # "ok"
            THEN [err |-> asm.err, cache |-> cache, fs |-> fs,
                  session |-> session, asm |-> "", runs |-> <<>>,
                  writes |-> {}]
            ELSE Build(asm.asm,
                       getCompiledArtifact(backend, asm.asm, remove, o))
    IN  IF ~isValidated
        THEN [err |-> "NotValidated", cache |-> cache, fs |-> fs,
              session |-> session, asm |-> "", runs |-> <<>>, writes |-> {}]
        ELSE Emit(emitAsm)

\* Graph::compile(handle, remove).  Returns [err, cache, fs, session, asm,
\* runs, writes].
compile(backend, remove, o, sessOk) ==
    LET Load(generatedAsm, art, ses) ==
            [err |-> ses.err, cache |-> art.cache, fs |-> art.fs,
             session |-> ses.session, asm |-> generatedAsm, runs |-> art.runs,
             writes |-> art.writes]
        Build(generatedAsm, art) ==
            IF art.err # "ok"
            THEN [err |-> art.err, cache |-> art.cache, fs |-> art.fs,
                  session |-> session, asm |-> generatedAsm,
                  runs |-> art.runs, writes |-> art.writes]
            ELSE Load(generatedAsm, art,
                      createPerGraphSession(art.fs, art.ret, sessOk))
        Emit(asm) ==
            IF asm.err # "ok"
            THEN [err |-> asm.err, cache |-> cache, fs |-> fs,
                  session |-> session, asm |-> "", runs |-> <<>>,
                  writes |-> {}]
            ELSE Build(asm.asm,
                       getCompiledArtifact(backend, asm.asm, remove, o))
    IN  IF ~isValidated
        THEN [err |-> "NotValidated", cache |-> cache, fs |-> fs,
              session |-> session, asm |-> "", runs |-> <<>>, writes |-> {}]
        ELSE Emit(emitAsm)

\* Graph::execute(variantPack): needs a live session; then one call into the
\* runtime, which succeeds or fails.  Returns [err, rtCalls].
execute(rtOk) ==
    IF session = "none" THEN [err |-> "NotValidated", rtCalls |-> 0]
    ELSE IF rtOk THEN [err |-> "ok", rtCalls |-> 1]
    ELSE [err |-> "RuntimeFailure", rtCalls |-> 1]

-----------------------------------------------------------------------------
(* Observation of calls *)

\* The exit code of the compiler a call has run: "none" when it ran none.
ExitOf(runs, o) ==
    IF runs = <<>> THEN "none" ELSE IF o.exit = 0 THEN "zero" ELSE "nonzero"

NoObs ==
    [op |-> "none", err |-> "ok", backend |-> "", asm |-> "",
     gname |-> "", remove |-> FALSE, reCompiled |-> "unset", ret |-> "",
     vc |-> "none", runs |-> <<>>, writes |-> {}, visited |-> <<>>,
     rtCalls |-> 0, prev |-> "none", from |-> "", onDisk |-> FALSE,
     exit |-> "none", obj |-> 0, view |-> 0, pushed |-> <<>>,
     reset |-> {}, dims |-> <<>>, argv |-> <<>>, lib |-> "", steps |-> <<>>,
     code |-> -1, fail |-> "none", src |-> 0]

\* A fresh observation for a call of op.
Obs(op) == [NoObs EXCEPT !.op = op, !.gname = name]

\* What came before a call, from the observation o it finds: "ok" when o is
\* a successful getCompiledArtifact, "renamed" when o is a rename that directly
\* followed one, else "other".
Before(o) ==
    IF o.op = "getCompiledArtifact" /\ o.err = "ok" THEN "ok"
    ELSE IF o.op = "setName" /\ o.prev = "getCompiledArtifact" /\ o.err = "ok"
    THEN "renamed"
    ELSE "other"

\* Whether the three cache files of the current graph name are on disk with
\* the given assembly and the command of the given backend.
OnDisk(backend, generatedAsm) ==
    LET inPath == GetPath(name, IREE_COMPILE_INPUT_FILENAME)
        outPath == GetPath(name, IREE_COMPILE_OUTPUT_FILENAME)
        cmdPath == GetPath(name, IREE_COMPILE_COMMAND_FILENAME)
    IN  /\ Exists(fs, inPath) /\ Exists(fs, outPath) /\ Exists(fs, cmdPath)
        /\ CacheFile_read(fs, inPath) = generatedAsm
        /\ CacheFile_read(fs, cmdPath)
              = buildCompileCommand(backend, inPath, outPath)

-----------------------------------------------------------------------------
(* Initial state *)

\* Cache files an earlier process left on disk for graph name "n1".
StaleFiles ==
    LET inPath == GetPath("n1", IREE_COMPILE_INPUT_FILENAME)
        outPath == GetPath("n1", IREE_COMPILE_OUTPUT_FILENAME)
        cmdPath == GetPath("n1", IREE_COMPILE_COMMAND_FILENAME)
        cmd == buildCompileCommand("CPU", inPath, outPath)
    IN  [p \in AllPaths |->
            IF p = inPath THEN "asmA"
            ELSE IF p = cmdPath THEN cmd
            ELSE IF p = outPath THEN Vmfb("asmA", cmd)
            ELSE Absent]

\* A newly constructed Graph; the cache directory holds the given files.
InitWith(files) ==
    /\ name = ""
    /\ isValidated = FALSE
    /\ session = "none"
    /\ cache = NoCache
    /\ fs = files
    /\ tensors = <<>>
    /\ inputs = {}
    /\ outputs = {}
    /\ subNodes = <<>>
    /\ inputsSorted = <<>>
    /\ outputsSorted = <<>>
    /\ last = NoObs
    /\ hist = [validated |-> FALSE, compiled |-> FALSE, calls |-> 0,
               compiles |-> 0, faults |-> 0,
               loaded |-> [results |-> <<>>, operands |-> <<>>],
               written |-> [p \in AllPaths |-> "none"]]
    /\ instanceRefs = <<>>
    /\ weakInstance = 0
    /\ handles = <<>>
    /\ views = <<>>
    /\ buffers = <<>>
    /\ devices = <<>>
    /\ pack = <<>>

NoFiles == [p \in AllPaths |-> Absent]

Init == InitWith(NoFiles)

InitCache == \E files \in {NoFiles, StaleFiles} : InitWith(files)

-----------------------------------------------------------------------------
(* Budgets of a run: how many compile-pipeline calls are made and how many
   times the environment misbehaves (a file operation fails, the compiler
   exits non-zero, the runtime fails, a cache file is unlinked from outside) *)

IsFault(o) == o.fail # "none" \/ o.exit # 0

CanCall == hist.calls < MaxCalls

CanFault(n) == hist.faults + n <= MaxFaults

Count(b) == IF b THEN 1 ELSE 0

-----------------------------------------------------------------------------
(* Actions: one per public operation of Graph *)

graphVars == <<tensors, inputs, outputs, subNodes, inputsSorted, outputsSorted>>

\* The handle and buffer layer, which no operation of Graph but execute
\* touches.
runtimeVars ==
    <<instanceRefs, weakInstance, handles, views, buffers, devices, pack>>

\* Graph::setName.  A rename that directly follows a getCompiledArtifact call
\* keeps that call's result next to its own observation (prev, err, ret).
SetName(n) ==
    /\ name' = n
    /\ last' = IF last.op = "getCompiledArtifact"
               THEN [Obs("setName") EXCEPT !.prev = last.op, !.err = last.err,
                                           !.ret = last.ret, !.from = name,
                                           !.gname = n]
               ELSE [Obs("setName") EXCEPT !.gname = n]
    /\ UNCHANGED <<isValidated, session, cache, fs, graphVars, hist,
                   runtimeVars>>

\* Graph::tensor clearing the flag of the graph.
Tensor_Invalidates(n, dimSet) ==
    /\ Cardinality(inputs) < MaxTensors
    /\ tensors' = Append(tensors, TensorAttr(n, dimSet, FALSE))
    /\ inputs' = inputs \cup {Len(tensors) + 1}
    /\ isValidated' = FALSE
    /\ last' = Obs("tensor")
    /\ UNCHANGED <<name, session, cache, fs, outputs, subNodes,
                   inputsSorted, outputsSorted, hist, runtimeVars>>

\* Graph::tensor
Tensor(n, dimSet) ==
    /\ Cardinality(inputs) < MaxTensors
    /\ tensors' = Append(tensors, TensorAttr(n, dimSet, FALSE))
    /\ inputs' = inputs \cup {Len(tensors) + 1}
    /\ last' = Obs("tensor")
    /\ UNCHANGED <<name, isValidated, session, cache, fs, outputs, subNodes,
                   inputsSorted, outputsSorted, hist,
                   runtimeVars>>

\* Graph::convFProp, on a graph of fewer than limit nodes.
ConvFPropWithin(limit, x, w, attrName) ==
    /\ Len(subNodes) < limit
    /\ \E r \in {convFProp(x, w, attrName)} :
          /\ tensors' = r.tensors
          /\ outputs' = r.outputs
          /\ subNodes' = r.subNodes
    /\ last' = Obs("convFProp")
    /\ UNCHANGED <<name, isValidated, session, cache, fs, inputs,
                   inputsSorted, outputsSorted, hist,
                   runtimeVars>>

\* Graph::convFProp
ConvFProp(x, w, attrName) == ConvFPropWithin(MaxNodes, x, w, attrName)

\* The elements of a view are in the order of their current names.
Ordered(ts, sorted) ==
    \A i, j \in 1..Len(sorted) :
        i < j => Rank(ts[sorted[i]].name) < Rank(ts[sorted[j]].name)

InsertAt(sorted, p, t) ==
    SubSeq(sorted, 1, p) \o <<t>> \o SubSeq(sorted, p + 1, Len(sorted))

\* insert(first, last) on a view whose elements are not in the order of
\* their names, because a tensor was renamed after its insertion: undefined
\* behaviour.  The search of the tree can take any turn, so each tensor is
\* found to be present or is linked in at any place, next to the elements
\* present, which keep their order; views are cut at MaxViewLen elements.
RECURSIVE UndefinedInsertAll(_, _)
UndefinedInsertAll(results, new) ==
    IF new = {} THEN results
    ELSE LET t == CHOOSE x \in new : TRUE
             more == UNION {{InsertAt(v, p, t) : p \in 0..Len(v)} :
                              v \in {r \in results : Len(r) < MaxViewLen}}
         IN UndefinedInsertAll(results \cup more, new \ {t})

\* The views a validate call can leave: the one computed, unless the call
\* has reached inferPropertiesNode with the view out of order.
ViewOutcomes(old, computed, set, visited) ==
    IF Ordered(tensors, old)
       \/ \A i \in 1..Len(visited) : visited[i] # "inferPropertiesNode"
    THEN {computed}
    ELSE UndefinedInsertAll({old}, set)

\* Graph::validate
Validate ==
    \E r \in {validate} :
      \E iv \in ViewOutcomes(inputsSorted, r.inputsSorted, inputs, r.visited),
         ov \in ViewOutcomes(outputsSorted, r.outputsSorted, outputs,
                             r.visited) :
        /\ isValidated' = r.isValidated
        /\ tensors' = r.tensors
        /\ inputsSorted' = iv
        /\ outputsSorted' = ov
        /\ last' = [Obs("validate") EXCEPT !.err = r.err, !.visited = r.visited]
        /\ hist' = [hist EXCEPT !.validated = @ \/ r.err = "ok"]
        /\ UNCHANGED <<name, session, cache, fs, inputs, outputs, subNodes,
                       runtimeVars>>

\* Graph::emitAsm
EmitAsm ==
    \E r \in {emitAsm} :
        /\ last' = [Obs("emitAsm") EXCEPT !.err = r.err, !.asm = r.asm]
        /\ UNCHANGED <<name, isValidated, session, cache, fs, graphVars, hist,
                       runtimeVars>>

\* Graph::getCompiledArtifact, as one of at most limit calls of a run.
GetCompiledArtifactWithin(limit, backend, generatedAsm, remove, o) ==
    /\ hist.calls < limit
    /\ CanFault(Count(IsFault(o)))
    /\ \E r \in {getCompiledArtifact(backend, generatedAsm, remove, o)} :
        /\ hist' = [hist EXCEPT !.calls = @ + 1,
                                !.faults = @ + Count(IsFault(o))]
        /\ cache' = r.cache
        /\ fs' = r.fs
        /\ last' = [Obs("getCompiledArtifact") EXCEPT
                      !.err = r.err, !.backend = backend, !.asm = generatedAsm,
                      !.remove = remove, !.reCompiled = r.reCompiled,
                      !.ret = r.ret, !.vc = r.vc, !.runs = r.runs,
                      !.writes = r.writes, !.prev = Before(last),
                      !.from = IF last.op = "setName" THEN last.from ELSE name,
                      !.onDisk = OnDisk(backend, generatedAsm),
                      !.exit = ExitOf(r.runs, o),
                      !.fail = IF r.vc = "miss" THEN o.fail ELSE "none"]
        /\ UNCHANGED <<name, isValidated, session, graphVars,
                       runtimeVars>>

\* Graph::getCompiledArtifact
GetCompiledArtifact(backend, generatedAsm, remove, o) ==
    GetCompiledArtifactWithin(MaxCalls, backend, generatedAsm, remove, o)

\* For every cache file, whether a compile call of this Graph has written
\* it and what the remove argument of the last such call was.
WrittenBy(written, writes, remove) ==
    [p \in AllPaths |->
        IF p \in writes THEN IF remove THEN "remove" ELSE "keep"
        ELSE written[p]]

\* Graph::compile, as one of at most limit compile calls of a run.
CompileWithin(limit, backend, remove, o, sessOk) ==
    /\ hist.compiles < limit
    /\ CanFault(Count(IsFault(o)) + Count(~sessOk))
    /\ \E r \in {compile(backend, remove, o, sessOk)},
          f \in {Count(IsFault(o)) + Count(~sessOk)} :
        /\ cache' = r.cache
        /\ fs' = r.fs
        /\ session' = r.session
        /\ last' = [Obs("compile") EXCEPT
                      !.err = r.err, !.backend = backend, !.asm = r.asm,
                      !.remove = remove, !.runs = r.runs, !.writes = r.writes,
                      !.exit = ExitOf(r.runs, o)]
        /\ hist' = [hist EXCEPT !.compiled = @ \/ r.err = "ok",
                                !.compiles = @ + 1, !.faults = @ + f,
                                !.loaded = IF r.err = "ok"
                                           THEN mainParameters ELSE @,
                                !.written = WrittenBy(@, r.writes, remove)]
        /\ UNCHANGED <<name, isValidated, graphVars,
                       runtimeVars>>

\* Graph::compile
Compile(backend, remove, o, sessOk) ==
    CompileWithin(MaxCompiles, backend, remove, o, sessOk)

\* Graph::execute
Execute(rtOk) ==
    /\ CanFault(Count(~rtOk))
    /\ \E r \in {execute(rtOk)} :
        /\ hist' = [hist EXCEPT !.faults = @ + Count(~rtOk)]
        /\ last' = [Obs("execute") EXCEPT !.err = r.err, !.rtCalls = r.rtCalls]
        /\ UNCHANGED <<name, isValidated, session, cache, fs, graphVars,
                       runtimeVars>>

\* Another process (or another Graph of the same name whose files were
\* created with remove = true) unlinks a file this Graph has recorded.
ExternalRemove(p) ==
    /\ cache.set
    /\ p \in {cache.input, cache.output, cache.compileCommand}
    /\ Exists(fs, p)
    /\ CanFault(1)
    /\ hist' = [hist EXCEPT !.faults = @ + 1]
    /\ fs' = [fs EXCEPT ![p] = Absent]
    /\ last' = Obs("externalRemove")
    /\ UNCHANGED <<name, isValidated, session, cache, graphVars,
                   runtimeVars>>

\* The cache pipeline of one Graph: renames (to a name that is not empty),
\* getCompiledArtifact calls with the assembly as an argument, and files
\* disappearing from the disk.
NextCache ==
    \/ \E n \in GraphNames \ {""} : SetName(n)
    \/ \E b \in Backends, a \in AsmArgs, r \in RemoveArgs, o \in Outcomes :
          GetCompiledArtifact(b, a, r, o)
    \/ \E p \in AllPaths : ExternalRemove(p)

SpecCache == InitCache /\ [][NextCache]_vars

\* One Graph whose caller retries: up to MaxRetryCalls getCompiledArtifact
\* calls under one name, with assembly that changes between the calls.
NextRetry ==
    \/ name = "" /\ SetName("n1")
    \/ \E b \in Backends, a \in AsmArgs, r \in RemoveArgs, o \in Outcomes :
          name # "" /\ GetCompiledArtifactWithin(MaxRetryCalls, b, a, r, o)

SpecRetry == Init /\ [][NextRetry]_vars

\* The life cycle of one Graph: build, validate, emit, compile, execute.
NextGraph ==
    \/ \E n \in {"", "n1"} : SetName(n)
    \/ \E n \in TensorNames, d \in BOOLEAN : Tensor(n, d)
    \/ \E x, w \in DOMAIN tensors, n \in NodeNames : ConvFProp(x, w, n)
    \/ Validate
    \/ EmitAsm
    \/ \E r \in RemoveArgs, o \in CompilerOutcomes, s \in BOOLEAN :
          Compile("CPU", r, o, s)
    \/ \E k \in BOOLEAN : Execute(k)

SpecGraph == Init /\ [][NextGraph]_vars

\* A Graph that is validated and then compiled more than once, under either
\* name and for either backend.
NextLife ==
    \/ \E n \in GraphNames \ {""} : SetName(n)
    \/ Validate
    \/ \E b \in Backends, r \in RemoveArgs, o \in Outcomes, s \in BOOLEAN :
          CompileWithin(MaxCalls, b, r, o, s)

SpecLife == Init /\ [][NextLife]_vars

\* TensorAttr::setOutput(b) on tensor t: the tensor is virtual exactly when
\* it is not an output; a tensor promoted to an output is a graph output.
setOutput(ts, outs, t, b) ==
    [tensors |-> [ts EXCEPT ![t].isVirtual = ~b],
     outputs |-> IF b THEN outs \cup {t} ELSE outs]

\* The caller promotes or demotes the tensor an operation has returned.
SetOutput(t, b) ==
    /\ \E nd \in DOMAIN subNodes : subNodes[nd].Y = t
    /\ \E r \in {setOutput(tensors, outputs, t, b)} :
          /\ tensors' = r.tensors
          /\ outputs' = r.outputs
    /\ last' = [Obs("setOutput") EXCEPT !.obj = t]
    /\ UNCHANGED <<name, isValidated, session, cache, fs, inputs, subNodes,
                   inputsSorted, outputsSorted, hist, runtimeVars>>

\* A Graph under construction: tensors, a chain of operations, promotion of
\* their results, and validation.
NextBuild ==
    \/ \E n \in TensorNames, d \in BOOLEAN : ~isValidated /\ Tensor(n, d)
    \/ \E x, w \in DOMAIN tensors, n \in NodeNames :
          ~isValidated /\ ConvFPropWithin(MaxChain, x, w, n)
    \/ \E t \in DOMAIN tensors : ~isValidated /\ SetOutput(t, TRUE)
    \/ Validate

SpecBuild == Init /\ [][NextBuild]_vars

\* TensorAttr::setName on a tensor of the graph, through the shared pointer
\* the builder has returned.
TensorSetName(t, n) ==
    /\ tensors[t].name # n
    /\ tensors' = [tensors EXCEPT ![t].name = n]
    /\ last' = [Obs("tensorSetName") EXCEPT !.obj = t]
    /\ UNCHANGED <<name, isValidated, session, cache, fs, inputs, outputs,
                   subNodes, inputsSorted, outputsSorted, hist, runtimeVars>>

\* Graph::setIODataType, setComputeDataType, setIntermediateDataType: they
\* set a data type of the context, which nothing of this model reads.
ContextSetters ==
    {"setIODataType", "setComputeDataType", "setIntermediateDataType"}

SetContextDataType(setter) ==
    /\ last' = Obs(setter)
    /\ UNCHANGED <<name, isValidated, session, cache, fs, graphVars, hist,
                   runtimeVars>>

\* The names the caller gives to tensors it renames.
RenameArgs == {"a", "a_Y"}

\* A Graph that is modified, validated and used in any order: builder and
\* setter calls and a rename of a tensor before and after validate.
NextModify ==
    \/ SetName("n1")
    \/ \E n \in {"a", "a_X"} : Tensor(n, TRUE)
    \/ \E x, w \in DOMAIN tensors : ConvFProp(x, w, "")
    \/ \E t \in DOMAIN tensors : TensorSetName(t, "a_Y")
    \/ \E setter \in ContextSetters : SetContextDataType(setter)
    \/ Validate
    \/ EmitAsm
    \/ \E o \in {c \in CompilerOutcomes : c.exit = 0} :
          CompileWithin(MaxCompiles, "CPU", FALSE, o, TRUE)

SpecModify == Init /\ [][NextModify]_vars

\* A Graph whose tensors are renamed between validate calls.
NextViews ==
    \/ name = "" /\ SetName("n1")
    \/ \E n \in {"a", "a_X"} : Tensor(n, TRUE)
    \/ \E x, w \in DOMAIN tensors : ConvFProp(x, w, "")
    \/ \E t \in DOMAIN tensors, n \in RenameArgs : TensorSetName(t, n)
    \/ Validate

SpecViews == Init /\ [][NextViews]_vars

\* Graph::~Graph: the members go out of scope, cache_ among them.
GraphDestroy ==
    /\ fs' = CachedAssets_destroy(fs, cache)
    /\ cache' = NoCache
    /\ session' = "none"
    /\ last' = Obs("~Graph")
    /\ UNCHANGED <<name, isValidated, graphVars, hist, runtimeVars>>

\* The Graph object exists.
GraphAlive == last.op # "~Graph"

\* The life of one Graph, from its construction to its destruction: renamed,
\* validated, compiled with either value of remove.
NextScope ==
    \/ \E n \in GraphNames \ {""} : GraphAlive /\ SetName(n)
    \/ GraphAlive /\ Validate
    \/ \E b \in Backends, r \in BOOLEAN, o \in Outcomes, s \in BOOLEAN :
          GraphAlive /\ CompileWithin(MaxCalls, b, r, o, s)
    \/ GraphAlive /\ GraphDestroy

SpecScope == Init /\ [][NextScope]_vars

-----------------------------------------------------------------------------
(* Shapes of the convolution graphs the benchmark driver and the samples
   build *)

\* One spatial axis of a convolution problem: the extent of the input, of
\* the filter, and the stride, padding and dilation along the axis, in this
\* order.
ConvAxes ==
    (1..MaxExtent) \X (1..MaxKernel) \X (1..MaxConvStride)
      \X (0..MaxPadding) \X (1..MaxDilation)

\* Batch size, input channels, output channels and group count, in this
\* order.
ConvChannels == {<<3, 4, 2, 2>>, <<1, 2, 4, 1>>}

\* getConvInferredOutputShape(xDim, wDim, dilation, padding, stride): the
\* batch of x, the output channels of w, and along every spatial axis
\* 1 + (x - dilation * (w - 1) + 2 * padding - 1) / stride, rounded down.
RECURSIVE getConvInferredOutputShapeFrom(_, _, _, _, _, _, _)
getConvInferredOutputShapeFrom(yDim, i, xDim, wDim, dilation, padding, stride) ==
    IF i > Len(xDim) THEN yDim
    ELSE getConvInferredOutputShapeFrom(
             Append(yDim,
                    1 + ((xDim[i] - dilation[i - 2] * (wDim[i] - 1)
                            + 2 * padding[i - 2] - 1) \div stride[i - 2])),
             i + 1, xDim, wDim, dilation, padding, stride)

getConvInferredOutputShape(xDim, wDim, dilation, padding, stride) ==
    getConvInferredOutputShapeFrom(<<xDim[1], wDim[1]>>, 3, xDim, wDim,
                                   dilation, padding, stride)

\* Property inference of a dim: a dim the caller has set is kept, an unset
\* one is filled in.
inferDim(isSet, given, inferred) == IF isSet THEN given ELSE inferred

\* All dims are positive, as validation requires.
PositiveDims(dim) == \A i \in 1..Len(dim) : dim[i] > 0

\* The vectors the driver makes of its options for a 2D convolution
\* (s == 2): h, y, u, p, l along the first axis and w, x, v, q, j along the
\* second.
DriverVectors(ch, a, b) ==
    [convDilation |-> <<a[5], b[5]>>,
     convPadding |-> <<a[4], b[4]>>,
     convStride |-> <<a[3], b[3]>>,
     wDims |-> <<ch[3], ch[2] \div ch[4], a[2], b[2]>>,
     xDims |-> <<ch[1], ch[2], a[1], b[1]>>]

\* The dims of the tensors of a graph, after property inference: of the
\* image (x or dx), the filter (w or dw) and the output (y or dy), followed
\* by the stride, padding and dilation of the node.
ConvDims(x, w, y, v) ==
    <<x, w, y, v.convStride, v.convPadding, v.convDilation>>

\* benchmarkConvFprop: x and w get the dims of the options, y is left to
\* property inference.
benchmarkConvFprop(v) ==
    ConvDims(v.xDims, v.wDims,
             inferDim(FALSE, <<>>,
                      getConvInferredOutputShape(v.xDims, v.wDims,
                                                 v.convDilation,
                                                 v.convPadding,
                                                 v.convStride)),
             v)

\* benchmarkConvWGrad giving dy the dims of the image.
benchmarkConvWGrad_DyLikeX(v) ==
    ConvDims(v.xDims, inferDim(TRUE, v.wDims, <<>>),
             <<v.xDims[1], v.wDims[1], v.xDims[3], v.xDims[4]>>, v)

\* benchmarkConvWGrad: dy gets the dims of getConvInferredOutputShape, x
\* the dims of the options, and dw is set to wDims by the caller.
benchmarkConvWGrad(v) ==
    ConvDims(v.xDims, inferDim(TRUE, v.wDims, <<>>),
             getConvInferredOutputShape(v.xDims, v.wDims, v.convDilation,
                                        v.convPadding, v.convStride),
             v)

\* benchmarkConvDGrad: dy gets the dims of getConvInferredOutputShape, w
\* the dims of the options, and dx is set to xDims by the caller.
benchmarkConvDGrad(v) ==
    ConvDims(inferDim(TRUE, v.xDims, <<>>), v.wDims,
             getConvInferredOutputShape(v.xDims, v.wDims, v.convDilation,
                                        v.convPadding, v.convStride),
             v)

\* The graph of the strided weight-gradient sample, of its constants n, c,
\* h, w, k, fc, r, s and st: dy has the spatial dims ho = h / st and
\* wo = w / st, and dw is set to {k, fc, r, s} by the sample.
SampleConvWGradStrided(n, c, h, w, k, fc, r, s, st) ==
    <<<<n, c, h, w>>, inferDim(TRUE, <<k, fc, r, s>>, <<>>),
      <<n, k, h \div st, w \div st>>, <<st, st>>, <<0, 0>>, <<1, 1>>>>

\* A graph of the given dims has been built and validated.
Validated(op, d) ==
    /\ PositiveDims(d[1]) /\ PositiveDims(d[2]) /\ PositiveDims(d[3])
    /\ last' = [Obs(op) EXCEPT !.dims = [x |-> d[1], w |-> d[2], y |-> d[3],
                                         stride |-> d[4], padding |-> d[5],
                                         dilation |-> d[6]]]
    /\ UNCHANGED <<name, isValidated, session, cache, fs, graphVars, hist,
                   runtimeVars>>

\* A run of the driver or of a sample builds one graph.
NoGraphYet == last.op = "none"

\* The driver in each of its modes, over the options of a 2D convolution.
BenchmarkConvFprop ==
    /\ NoGraphYet
    /\ \E ch \in ConvChannels, a, b \in ConvAxes :
           \E d \in {benchmarkConvFprop(DriverVectors(ch, a, b))} :
               Validated("benchmarkConvFprop", d)

BenchmarkConvWGrad ==
    /\ NoGraphYet
    /\ \E ch \in ConvChannels, a, b \in ConvAxes :
           \E d \in {benchmarkConvWGrad(DriverVectors(ch, a, b))} :
               Validated("benchmarkConvWGrad", d)

BenchmarkConvDGrad ==
    /\ NoGraphYet
    /\ \E ch \in ConvChannels, a, b \in ConvAxes :
           \E d \in {benchmarkConvDGrad(DriverVectors(ch, a, b))} :
               Validated("benchmarkConvDGrad", d)

\* The sample with the constants it declares.
SampleWGradStrided ==
    /\ NoGraphYet
    /\ \E d \in {SampleConvWGradStrided(4, 16, 8, 8, 32, 4, 1, 1, 2)} :
           Validated("sampleWGradStrided", d)

NextShape ==
    \/ BenchmarkConvFprop
    \/ BenchmarkConvWGrad
    \/ BenchmarkConvDGrad
    \/ SampleWGradStrided

SpecShape == Init /\ [][NextShape]_vars

-----------------------------------------------------------------------------
(* The benchmark driver (benchmarks/driver.cpp): its command line, its own
   argument checks, the run of a benchmark and the exit code of main *)

\* The value of an optional option that was not given (default_val("-1")).
NotSet == 0 - 1

\* The validators of the options.
kIsPositiveInteger(v) == v >= 1

kIsNonNegativeInteger(v) == v >= 0

kIsValidConvLayout(layout) == layout \in {"NCHW", "NHWC", "NCDHW", "NDHWC"}

\* An optional option is validated when it is given.
GivenAnd(v, valid) == v = NotSet \/ valid

\* The command lines: --iter, --mode, --group_count, --spatial_dim, the
\* three layouts, the five depth options <<in_d, fil_d, conv_stride_d,
\* pad_d, dilation_d>> and the three flags; the other required options are
\* given with valid values, in_channels and out_channels as DriverChannels.
IterOptions == 0..MaxIter
ModeOptions == 1..4
GroupOptions == 1..MaxGroups
SpatialDimOptions == {2, 3}
ImageLayouts == {"NCHW", "NCDHW"}
FilterLayouts == {"NCHW", "NCDHW"}
OutputLayouts == {"NHWC", "NDHWC", "NCW"}
DepthGiven == <<2, 1, 1, 0, 1>>
DepthOptions ==
    {DepthGiven, <<NotSet, NotSet, NotSet, NotSet, NotSet>>}
    \cup {[DepthGiven EXCEPT ![i] = NotSet] : i \in 1..5}
DriverChannels == <<4, 6>>       \* in_channels, out_channels

\* What the library does in a run: every call succeeds, or the named call
\* returns an error, or an exception is thrown while the graph is built.
LibraryOutcomes ==
    {"ok", "Handle::create", "validate", "compile", "allocateBuffer",
     "execute", "exception"}

\* CLI11_PARSE(mainApp, argc, argv): the option validators run first, then
\* the exclusion of --fp16 and --bf16; the result is "ok" or the parse
\* error thrown.
CLI11_PARSE(a) ==
    IF ~ /\ kIsPositiveInteger(a.iter)
         /\ a.mode \in {1, 2, 4}
         /\ kIsPositiveInteger(a.g)
         /\ a.s \in {2, 3}
         /\ kIsValidConvLayout(a.imageLayout)
         /\ kIsValidConvLayout(a.filterLayout)
         /\ kIsValidConvLayout(a.outputLayout)
         /\ GivenAnd(a.depth[1], kIsPositiveInteger(a.depth[1]))
         /\ GivenAnd(a.depth[2], kIsPositiveInteger(a.depth[2]))
         /\ GivenAnd(a.depth[3], kIsPositiveInteger(a.depth[3]))
         /\ GivenAnd(a.depth[4], kIsNonNegativeInteger(a.depth[4]))
         /\ GivenAnd(a.depth[5], kIsPositiveInteger(a.depth[5]))
    THEN "ValidationError"
    ELSE IF a.fp16 /\ a.bf16 THEN "ExcludesError"
    ELSE "ok"

\* The value CLI11_PARSE returns from benchmark on a parse error:
\* mainApp.exit(e), the exit code of the error in CLI11.
CLI11_exit(e) ==
    CASE e = "ValidationError" -> 105
      [] e = "ExcludesError" -> 108

\* The additional validation of the options in benchmark that lets the
\* group count pass without its check against the channels.
DriverChecks_GroupUnchecked(a) ==
    /\ a.s = 2 => /\ Len(a.imageLayout) = 4 /\ Len(a.filterLayout) = 4
                  /\ Len(a.outputLayout) = 4
    /\ a.s = 3 => /\ Len(a.imageLayout) = 5 /\ Len(a.filterLayout) = 5
                  /\ Len(a.outputLayout) = 5
                  /\ \A i \in 1..5 : a.depth[i] # NotSet
    /\ ~(a.bias /\ a.mode # 1)

\* The additional validation of the options in benchmark: TRUE when no
\* check returns 1.
DriverChecks(a) ==
    /\ a.s = 2 => /\ Len(a.imageLayout) = 4 /\ Len(a.filterLayout) = 4
                  /\ Len(a.outputLayout) = 4
    /\ a.s = 3 => /\ Len(a.imageLayout) = 5 /\ Len(a.filterLayout) = 5
                  /\ Len(a.outputLayout) = 5
                  /\ \A i \in 1..5 : a.depth[i] # NotSet
    /\ ~(a.c % a.g # 0 \/ a.k % a.g # 0)
    /\ ~(a.bias /\ a.mode # 1)

\* The steps of benchmarkConvFprop, benchmarkConvDGrad and
\* benchmarkConvWGrad, in their order.
BenchmarkStages ==
    <<"Handle::create", "graph", "validate", "compile", "allocateBuffer",
      "execute">>

\* The steps a benchmark function reaches when the library behaves as lib:
\* up to the call that returns the error, or up to the building of the
\* graph that throws.
RECURSIVE StagesUntil(_, _)
StagesUntil(i, stop) ==
    IF i > Len(BenchmarkStages) THEN <<>>
    ELSE IF BenchmarkStages[i] = stop THEN <<stop>>
    ELSE <<BenchmarkStages[i]>> \o StagesUntil(i + 1, stop)

benchmarkConv(lib) ==
    [status |-> IF lib = "ok" THEN "ok"
                ELSE IF lib = "exception" THEN "thrown" ELSE "error",
     steps |-> StagesUntil(1, IF lib = "exception" THEN "graph" ELSE lib)]

\* benchmark(argc, argv): the value returned (none when an exception
\* leaves it) and the steps reached.
benchmark(a, lib) ==
    LET returns(v, steps) == [ret |-> v, steps |-> steps, thrown |-> FALSE]
        after(p, r) ==
            IF p # "ok" THEN returns(CLI11_exit(p), <<>>)
            ELSE IF ~DriverChecks(a) THEN returns(1, <<>>)
            ELSE IF r.status = "thrown"
            THEN [ret |-> NotSet, steps |-> r.steps, thrown |-> TRUE]
            ELSE IF r.status = "error" THEN returns(1, r.steps)
            ELSE returns(0, r.steps)
    IN  after(CLI11_PARSE(a), benchmarkConv(lib))

\* main: the value of benchmark, or 1 when an exception is caught.
main(a, lib) ==
    LET caught(r) == IF r.thrown THEN [r EXCEPT !.ret = 1] ELSE r
    IN  caught(benchmark(a, lib))

\* A run of the driver.
Main ==
    /\ NoGraphYet
    /\ \E iter \in IterOptions, mode \in ModeOptions, g \in GroupOptions,
          s \in SpatialDimOptions, il \in ImageLayouts, fl \in FilterLayouts,
          ol \in OutputLayouts, depth \in DepthOptions,
          fp16 \in BOOLEAN, bf16 \in BOOLEAN, bias \in BOOLEAN,
          lib \in LibraryOutcomes :
           \E a \in {[iter |-> iter, mode |-> mode, g |-> g,
                       c |-> DriverChannels[1], k |-> DriverChannels[2],
                       s |-> s, imageLayout |-> il, filterLayout |-> fl,
                       outputLayout |-> ol, depth |-> depth, fp16 |-> fp16,
                       bf16 |-> bf16, bias |-> bias]} :
               \E r \in {main(a, lib)} :
                   last' = [Obs("main") EXCEPT !.argv = a, !.lib = lib,
                                               !.steps = r.steps,
                                               !.code = r.ret]
    /\ UNCHANGED <<name, isValidated, session, cache, fs, graphVars, hist,
                   runtimeVars>>

NextDriver == Main

SpecDriver == Init /\ [][NextDriver]_vars

-----------------------------------------------------------------------------
(* The graph names of the driver *)

\* std::format("{}", b) of a bool.
FormatBool(b) == IF b THEN "true" ELSE "false"

\* The element type the driver selects from --fp16 and --bf16, which
\* exclude each other.
convIOType(fp16, bf16) ==
    IF fp16 THEN "Half" ELSE IF bf16 THEN "BFloat16" ELSE "Float"

\* The part of the graph name the three benchmarks share: every integer
\* option and the three layouts.
FormatOptions(a) ==
    "_n" \o ToString(a.n) \o "_c" \o ToString(a.c) \o "_d" \o ToString(a.d)
    \o "_h" \o ToString(a.h) \o "_w" \o ToString(a.w)
    \o "_g" \o ToString(a.g) \o "_k" \o ToString(a.k)
    \o "_z" \o ToString(a.z) \o "_y" \o ToString(a.y)
    \o "_x" \o ToString(a.x) \o "_t" \o ToString(a.t)
    \o "_u" \o ToString(a.u) \o "_v" \o ToString(a.v)
    \o "_o" \o ToString(a.o) \o "_p" \o ToString(a.p)
    \o "_q" \o ToString(a.q) \o "_m" \o ToString(a.m)
    \o "_l" \o ToString(a.l) \o "_j" \o ToString(a.j)
    \o "_S" \o ToString(a.s) \o "_I" \o a.imageLayout
    \o "_O" \o a.outputLayout \o "_F" \o a.filterLayout

\* The graph name with the element type in it.
graphName_WithType(mode, a, type) ==
    IF mode = 1
    THEN "benchmark_conv_fprop" \o FormatOptions(a)
            \o "_bias" \o FormatBool(a.bias) \o "_" \o type
    ELSE IF mode = 2 THEN "benchmark_conv_dgrad" \o FormatOptions(a)
                             \o "_" \o type
    ELSE "benchmark_conv_wgrad" \o FormatOptions(a) \o "_" \o type

\* graphName of benchmarkConvFprop (mode 1), benchmarkConvDGrad (mode 2)
\* and benchmarkConvWGrad (mode 4); the element type is an argument of the
\* three functions and is not used in the name.
graphName(mode, a, type) ==
    IF mode = 1
    THEN "benchmark_conv_fprop" \o FormatOptions(a)
            \o "_bias" \o FormatBool(a.bias)
    ELSE IF mode = 2 THEN "benchmark_conv_dgrad" \o FormatOptions(a)
    ELSE "benchmark_conv_wgrad" \o FormatOptions(a)

\* The text of a list of integers.
RECURSIVE FormatDims(_)
FormatDims(dims) ==
    IF dims = <<>> THEN ""
    ELSE ToString(Head(dims)) \o "," \o FormatDims(Tail(dims))

\* A tensor as the assembly shows it: its name, its dims, whether its
\* strides are those of a contiguous or of a channels-last tensor, and its
\* element type.
TensorText(n, dims, layout, type) ==
    n \o "[" \o FormatDims(dims) \o "]"
      \o (IF layout \in {"NCHW", "NCDHW"} THEN "contiguous" ELSE "channelsLast")
      \o ":" \o type \o ";"

\* What the assembly of the graph a benchmark builds is made of, for a 2D
\* convolution: the tensors the driver gives to the builders and the
\* attributes of the node; the bias tensor and the pointwise add only in
\* benchmarkConvFprop with bias.
graphAsm(mode, a, type) ==
    LET xT == TensorText("input", <<a.n, a.c, a.h, a.w>>, a.imageLayout, type)
        wT == TensorText("filter", <<a.k, a.c \div a.g, a.y, a.x>>,
                         a.filterLayout, type)
        yT == TensorText("output", <<>>, a.outputLayout, type)
        bT == TensorText("bias", <<1, a.k, 1, 1>>, a.imageLayout, type)
        attr == "stride[" \o FormatDims(<<a.u, a.v>>)
                   \o "]padding[" \o FormatDims(<<a.p, a.q>>)
                   \o "]dilation[" \o FormatDims(<<a.l, a.j>>) \o "]"
    IN  IF mode = 1
        THEN "conv_fprop:" \o xT \o wT \o yT \o attr
                \o (IF a.bias THEN bT \o "add" ELSE "")
        ELSE IF mode = 2 THEN "conv_dgrad:" \o yT \o wT \o xT \o attr
        ELSE "conv_wgrad:" \o yT \o xT \o wT \o attr

\* The command lines of the runs whose names are compared: a 2D
\* convolution of an 8 x 8 image with a 3 x 3 filter.
NameChannels == {4}
NameStrides == {1, 2}
NameLayouts == {"NCHW", "NHWC"}
NameTypes == {<<TRUE, FALSE>>, <<FALSE, TRUE>>, <<FALSE, FALSE>>}

NameOptions(c, v, layout, bias) ==
    [n |-> 1, c |-> c, d |-> NotSet, h |-> 8, w |-> 8, g |-> 1, k |-> 4,
     z |-> NotSet, y |-> 3, x |-> 3, t |-> NotSet, u |-> 1, v |-> v,
     o |-> NotSet, p |-> 0, q |-> 0, m |-> NotSet, l |-> 1, j |-> 1, s |-> 2,
     imageLayout |-> layout, outputLayout |-> layout,
     filterLayout |-> layout, bias |-> bias]

\* A run of the driver up to graph.setName and the builder calls, after
\* another run against the same file system: its graph name and what its
\* assembly is made of, next to those of the run before it.
DriverGraph ==
    /\ session = "none"
    /\ \E mode \in {1, 2, 4}, c \in NameChannels, v \in NameStrides,
          layout \in NameLayouts, bias \in BOOLEAN, f \in NameTypes :
          \E gn \in {graphName(mode, NameOptions(c, v, layout, bias),
                               convIOType(f[1], f[2]))},
             ga \in {graphAsm(mode, NameOptions(c, v, layout, bias),
                              convIOType(f[1], f[2]))} :
             /\ name' = gn
             /\ last' = [Obs("benchmark") EXCEPT
                           !.gname = gn, !.asm = ga, !.prev = last.op,
                           !.from = last.gname, !.ret = last.asm]
    /\ UNCHANGED <<isValidated, session, cache, fs, graphVars, hist,
                   runtimeVars>>

NextNames == DriverGraph

SpecNames == Init /\ [][NextNames]_vars

-----------------------------------------------------------------------------
(* Stride order and the permutations of the emitter *)

MaxRank == 3
MaxDimValue == 3

\* Axes are numbered from 0, as in the emitted lists; dim and stride are
\* sequences, so axis a is element a + 1.
Axes(n) == 0..(n - 1)

\* The order of the descending sort of the strides: of two axes the one of
\* the larger stride comes first, on equal strides the one of the larger dim,
\* on equal dims the one of the lower index.
ComesBefore(dim, stride, a, b) ==
    \/ stride[a + 1] > stride[b + 1]
    \/ /\ stride[a + 1] = stride[b + 1]
       /\ dim[a + 1] > dim[b + 1]
    \/ /\ stride[a + 1] = stride[b + 1]
       /\ dim[a + 1] = dim[b + 1]
       /\ a < b

\* strideOrder: the list of the logical axes from the outermost to the
\* innermost in memory.
strideOrder(dim, stride) ==
    [i \in 1..Len(dim) |->
        CHOOSE a \in Axes(Len(dim)) :
            Cardinality({b \in Axes(Len(dim)) :
                            ComesBefore(dim, stride, b, a)}) = i - 1]

\* permute(dims, order), and the dims of the result of torch.aten.permute:
\* axis i of the result is axis order[i] of the operand.
permute(dims, order) == [i \in 1..Len(order) |-> dims[order[i] + 1]]

\* physicalDim = permute(dim, strideOrder(stride))
physicalDim(dim, stride) == permute(dim, strideOrder(dim, stride))

\* The list that undoes order.
InverseOrder(order) ==
    [i \in 1..Len(order) |->
        CHOOSE j \in Axes(Len(order)) : order[j + 1] = i - 1]

\* The input list with the stride order itself, not its inverse.
InputPermute_NotInverted(dim, stride) == strideOrder(dim, stride)

\* The list of an input permute (%permute_DY, %permute_W, %permute_IN_0):
\* from the tensor as the function parameter holds it to its logical axes.
InputPermute(dim, stride) == InverseOrder(strideOrder(dim, stride))

\* The list of the outbound permute of a graph output (%permute_DX,
\* %permute_OUT_0): from the logical axes to those of the destination.
OutputPermute(dim, stride) == strideOrder(dim, stride)

\* The stride of dims laid out in memory in the given order of axes, from
\* the outermost to the innermost.
RECURSIVE StrideUpTo(_, _, _)
StrideUpTo(dim, order, i) ==
    IF i = Len(order) THEN 1
    ELSE StrideUpTo(dim, order, i + 1) * dim[order[i + 1] + 1]

generateStrideFromDim(dim, order) ==
    [a \in 1..Len(dim) |->
        StrideUpTo(dim, order, CHOOSE i \in 1..Len(order) : order[i] = a - 1)]

\* Contiguous stride: the innermost stride is 1 and each other stride is the
\* product of the dims inside it.
getContiguousStrideOrder(n) == [i \in 1..n |-> i - 1]

IsContiguous(dim, stride) ==
    stride = generateStrideFromDim(dim, getContiguousStrideOrder(Len(dim)))

\* The orders of the axes of a tensor of rank n.
Orders(n) ==
    {o \in [1..n -> Axes(n)] : \A a \in Axes(n) : \E i \in 1..n : o[i] = a}

\* What the emitter writes for an input a and a graph output y: the type of
\* the function parameter, the list and the result type of the input permute;
\* the operand type, the list and the result type of the outbound permute and
\* the type of the destination parameter.
Permutes(aDim, aStride, yDim, yStride) ==
    [aDim |-> aDim, aStride |-> aStride, yDim |-> yDim, yStride |-> yStride,
     param |-> physicalDim(aDim, aStride),
     permuteIn |-> InputPermute(aDim, aStride),
     permIn |-> aDim,
     resultPerm |-> yDim,
     permuteOut |-> OutputPermute(yDim, yStride),
     result |-> permute(yDim, OutputPermute(yDim, yStride)),
     dest |-> physicalDim(yDim, yStride)]

EmitPermutes(p) ==
    /\ last' = [Obs("emitAsm") EXCEPT !.dims = p]
    /\ UNCHANGED <<name, isValidated, session, cache, fs, graphVars, hist,
                   runtimeVars>>

\* emitAsm of a graph of one input and one output of its dims, each laid out
\* in an order of its own.
EmitTensors ==
    /\ last.op = "none"
    /\ \E n \in 2..MaxRank :
          \E dim \in [1..n -> 1..MaxDimValue], oa, oy \in Orders(n) :
              \E p \in {Permutes(dim, generateStrideFromDim(dim, oa),
                                 dim, generateStrideFromDim(dim, oy))} :
                  EmitPermutes(p)

\* The tensors of the lit tests: dy (NHWC), w (KCRS) and dx (NHWC) of the
\* grouped data gradient; the transposed operand and the result of the
\* pointwise add.
LitTensors ==
    {<<<<16, 256, 64, 32>>, <<256 * 64 * 32, 1, 256 * 32, 256>>,
       <<16, 128, 64, 32>>, <<128 * 64 * 32, 1, 128 * 32, 128>>>>,
     <<<<256, 16, 1, 1>>, <<16, 1, 1, 1>>,
       <<16, 128, 64, 32>>, <<128 * 64 * 32, 1, 128 * 32, 128>>>>,
     <<<<128, 256>>, <<1, 128>>, <<128, 256>>, <<256, 1>>>>,
     <<<<128, 256>>, <<256, 1>>, <<128, 256>>, <<256, 1>>>>}

EmitLit ==
    /\ last.op = "none"
    /\ \E t \in LitTensors :
          \E p \in {Permutes(t[1], t[2], t[3], t[4])} : EmitPermutes(p)

NextPermute ==
    \/ EmitTensors
    \/ EmitLit

SpecPermute == Init /\ [][NextPermute]_vars

-----------------------------------------------------------------------------
(* The runtime's buffer views and the Buffer wrapper (buffer.h) *)

MaxViews == 3
MaxBuffers == 3
MaxHandles == 2

HostData == {"ones"}

\* nullptr as a buffer view.
NullView == 0

\* iree_hal_buffer_view_retain
iree_hal_buffer_view_retain(vs, v) == [vs EXCEPT ![v].refs = @ + 1]

\* iree_hal_buffer_view_release: the view is destroyed with its last
\* reference.
iree_hal_buffer_view_release(vs, v) == [vs EXCEPT ![v].refs = @ - 1]

\* iree_hal_buffer_view_allocate_buffer_copy: a new view holding a copy of
\* the data; its one reference belongs to the caller.
iree_hal_buffer_view_allocate_buffer_copy(vs, data) ==
    Append(vs, [refs |-> 1, ext |-> 0, data |-> data, popped |-> FALSE])

\* iree_runtime_call_outputs_pop_front_buffer_view on a result the runtime
\* has allocated: a new view holding the result; its one reference belongs
\* to the caller.
iree_runtime_call_outputs_pop_front_buffer_view(vs, data) ==
    Append(vs, [refs |-> 1, ext |-> 0, data |-> data, popped |-> TRUE])

\* IreeHalBufferViewDeleter: releases a view that is not null.
IreeHalBufferViewDeleter(vs, v) ==
    IF v # NullView THEN iree_hal_buffer_view_release(vs, v) ELSE vs

\* A Buffer object holding view v (bufferView_).
Buffer(v) == [alive |-> TRUE, view |-> v]

\* Buffer::import without the retain.
Buffer_import_NoRetain(vs, bs, v) ==
    IF v = NullView
    THEN [err |-> "RuntimeFailure", views |-> vs, buffers |-> bs, buf |-> 0]
    ELSE [err |-> "ok", views |-> vs,
          buffers |-> Append(bs, Buffer(v)), buf |-> Len(bs) + 1]

\* Buffer::import(externalBufferView).  Returns [err, views, buffers, buf].
Buffer_import(vs, bs, v) ==
    IF v = NullView
    THEN [err |-> "RuntimeFailure", views |-> vs, buffers |-> bs, buf |-> 0]
    ELSE [err |-> "ok", views |-> iree_hal_buffer_view_retain(vs, v),
          buffers |-> Append(bs, Buffer(v)), buf |-> Len(bs) + 1]

\* Buffer::allocate(handle, shape, data); allocOk is whether the runtime's
\* allocation succeeds.  Returns [err, views, buffers, buf].
Buffer_allocate(vs, bs, data, allocOk) ==
    IF ~allocOk
    THEN [err |-> "RuntimeFailure", views |-> vs, buffers |-> bs, buf |-> 0]
    ELSE [err |-> "ok",
          views |-> iree_hal_buffer_view_allocate_buffer_copy(vs, data),
          buffers |-> Append(bs, Buffer(Len(vs) + 1)), buf |-> Len(bs) + 1]

\* FusilliHandle::allocateBuffer(shape, data): the view is allocated into a
\* local pointer copied from the new Buffer, and the Buffer is returned as it
\* was constructed.  Returns [err, views, buffers, buf].
allocateBuffer(vs, bs, data, allocOk) ==
    IF ~allocOk
    THEN [err |-> "RuntimeFailure", views |-> vs, buffers |-> bs, buf |-> 0]
    ELSE [err |-> "ok",
          views |-> iree_hal_buffer_view_allocate_buffer_copy(vs, data),
          buffers |-> Append(bs, Buffer(NullView)), buf |-> Len(bs) + 1]

\* Buffer::reset dropping the new view.
Buffer_reset_KeepOld(vs, bs, b, newBufferView) ==
    [views |-> vs, buffers |-> bs]

\* Buffer::reset(newBufferView): bufferView_.reset(newBufferView) stores the
\* new view and hands the old one to the deleter.  Returns [views, buffers].
Buffer_reset(vs, bs, b, newBufferView) ==
    [views |-> IreeHalBufferViewDeleter(vs, bs[b].view),
     buffers |-> [bs EXCEPT ![b].view = newBufferView]]

\* The conversion to the raw pointer giving up the view (release() in place
\* of get()).
getBufferView_GiveUp(bs, b) ==
    [view |-> bs[b].view, buffers |-> [bs EXCEPT ![b].view = NullView]]

\* Buffer::operator iree_hal_buffer_view_t *() / getBufferView: the raw
\* pointer; the Buffer keeps the view.  Returns [view, buffers].
getBufferView(bs, b) == [view |-> bs[b].view, buffers |-> bs]

\* Buffer::~Buffer: the deleter of bufferView_ runs.  Returns [views, buffers].
Buffer_destroy(vs, bs, b) ==
    [views |-> IreeHalBufferViewDeleter(vs, bs[b].view),
     buffers |-> [bs EXCEPT ![b].alive = FALSE, ![b].view = NullView]]

\* The move constructor copying the pointer and leaving the source as it
\* was.
Buffer_move_KeepSource(bs, src) == Append(bs, Buffer(bs[src].view))

\* Buffer(Buffer &&): the new Buffer takes the view of the source, which is
\* left with a null bufferView_.  Returns the Buffers.
Buffer_move(bs, src) ==
    Append([bs EXCEPT ![src].view = NullView], Buffer(bs[src].view))

\* Buffer &operator=(Buffer &&): bufferView_.reset(src.bufferView_.release())
\* hands the old view of the target to the deleter.  Returns [views, buffers].
Buffer_moveAssign(vs, bs, dst, src) ==
    [views |-> IreeHalBufferViewDeleter(vs, bs[dst].view),
     buffers |-> [bs EXCEPT ![dst].view = bs[src].view,
                            ![src].view = NullView]]

\* Buffer::read(handle, out): the host values of the view.  Reading through a
\* view that was destroyed is a use after free: the values it held, other
\* values, or a crash.
Buffer_read(vs, bs, b) ==
    IF bs[b].view = NullView THEN {"RuntimeFailure"}
    ELSE IF vs[bs[b].view].refs > 0 THEN {vs[bs[b].view].data}
    ELSE {vs[bs[b].view].data, "<garbage>", "<crash>"}

\* The number of live Buffers that hold view v.
Owners(bs, v) == Cardinality({b \in DOMAIN bs : bs[b].alive /\ bs[b].view = v})

-----------------------------------------------------------------------------
(* The shared runtime instance and FusilliHandle (handle.h) *)

\* Whether the instance the static weak reference names is still alive.
Expired(refs, weak) == weak = 0 \/ refs[weak] = 0

\* createSharedInstance without the static weak reference: every call makes
\* an instance.
createSharedInstance_Unshared(refs, weak, instOk) ==
    IF ~instOk
    THEN [err |-> "RuntimeFailure", instanceRefs |-> refs,
          weakInstance |-> weak, instance |-> 0]
    ELSE [err |-> "ok", instanceRefs |-> Append(refs, 1),
          weakInstance |-> Len(refs) + 1, instance |-> Len(refs) + 1]

\* FusilliHandle::createSharedInstance: a strong reference to the instance
\* the weak reference names, or to a new instance when that one is gone;
\* instOk is whether the runtime can create one.  Returns [err, instanceRefs,
\* weakInstance, instance].
createSharedInstance(refs, weak, instOk) ==
    IF ~Expired(refs, weak)
    THEN [err |-> "ok", instanceRefs |-> [refs EXCEPT ![weak] = @ + 1],
          weakInstance |-> weak, instance |-> weak]
    ELSE IF ~instOk
    THEN [err |-> "RuntimeFailure", instanceRefs |-> refs,
          weakInstance |-> weak, instance |-> 0]
    ELSE [err |-> "ok", instanceRefs |-> Append(refs, 1),
          weakInstance |-> Len(refs) + 1, instance |-> Len(refs) + 1]

\* A FusilliHandle(backend, instance).
FusilliHandle(backend, instance) ==
    [alive |-> TRUE, backend |-> backend, instance |-> instance]

\* FusilliHandle::create making an instance of its own for every handle.
FusilliHandle_create_OwnInstance(backend, instOk, devOk) ==
    IF ~instOk
    THEN [err |-> "RuntimeFailure", instanceRefs |-> instanceRefs,
          weakInstance |-> weakInstance, handles |-> handles]
    ELSE IF ~devOk
    THEN [err |-> "RuntimeFailure", instanceRefs |-> Append(instanceRefs, 0),
          weakInstance |-> Len(instanceRefs) + 1, handles |-> handles]
    ELSE [err |-> "ok", instanceRefs |-> Append(instanceRefs, 1),
          weakInstance |-> Len(instanceRefs) + 1,
          handles |-> Append(handles,
                             FusilliHandle(backend, Len(instanceRefs) + 1))]

\* FusilliHandle::create(backend); devOk is whether createPerHandleDevice
\* succeeds.  A handle that is not returned is destroyed, and its reference
\* to the instance with it.  Returns [err, instanceRefs, weakInstance,
\* handles].
FusilliHandle_create(backend, instOk, devOk) ==
    LET Make(inst) ==
            IF inst.err # "ok"
            THEN [err |-> inst.err, instanceRefs |-> instanceRefs,
                  weakInstance |-> weakInstance, handles |-> handles]
            ELSE IF ~devOk
            THEN [err |-> "RuntimeFailure",
                  instanceRefs |-> [inst.instanceRefs EXCEPT
                                      ![inst.instance] = @ - 1],
                  weakInstance |-> inst.weakInstance, handles |-> handles]
            ELSE [err |-> "ok", instanceRefs |-> inst.instanceRefs,
                  weakInstance |-> inst.weakInstance,
                  handles |-> Append(handles,
                                     FusilliHandle(backend, inst.instance))]
    IN  Make(createSharedInstance(instanceRefs, weakInstance, instOk))

\* FusilliHandle::~FusilliHandle: instance_ gives up its reference.
\* Returns [instanceRefs, handles].
FusilliHandle_destroy(h) ==
    [instanceRefs |-> [instanceRefs EXCEPT ![handles[h].instance] = @ - 1],
     handles |-> [handles EXCEPT ![h].alive = FALSE]]

-----------------------------------------------------------------------------
(* Actions of the handle and buffer layer *)

graphState == <<name, isValidated, session, cache, fs, graphVars>>

LiveHandles == {h \in DOMAIN handles : handles[h].alive}

LiveBuffers == {b \in DOMAIN buffers : buffers[b].alive}

\* FusilliHandle::create
HandleCreate(backend, instOk, devOk) ==
    /\ Len(handles) < MaxHandles
    /\ CanFault(Count(~instOk) + Count(~devOk))
    /\ \E r \in {FusilliHandle_create(backend, instOk, devOk)} :
        /\ instanceRefs' = r.instanceRefs
        /\ weakInstance' = r.weakInstance
        /\ handles' = r.handles
        /\ last' = [Obs("create") EXCEPT !.err = r.err, !.backend = backend]
    /\ hist' = [hist EXCEPT !.faults = @ + Count(~instOk) + Count(~devOk)]
    /\ UNCHANGED <<graphState, devices, views, buffers, pack>>

\* A FusilliHandle goes out of scope.
HandleDestroy(h) ==
    /\ h \in LiveHandles
    /\ \E r \in {FusilliHandle_destroy(h)} :
        /\ instanceRefs' = r.instanceRefs
        /\ handles' = r.handles
    /\ last' = [Obs("~FusilliHandle") EXCEPT !.obj = h]
    /\ UNCHANGED <<graphState, devices, weakInstance, views, buffers, pack, hist>>

\* What the factories of Buffer leave: the views, the Buffers, the result.
Made(op, r, data) ==
    /\ views' = r.views
    /\ buffers' = r.buffers
    /\ last' = [Obs(op) EXCEPT !.err = r.err, !.obj = r.buf, !.asm = data]
    /\ UNCHANGED <<graphState, devices, instanceRefs, weakInstance, handles, pack>>

\* Buffer::allocate(handle, shape, data)
BufferAllocate(h, data, allocOk) ==
    /\ h \in LiveHandles
    /\ Len(buffers) < MaxBuffers /\ Len(views) < MaxViews
    /\ CanFault(Count(~allocOk))
    /\ hist' = [hist EXCEPT !.faults = @ + Count(~allocOk)]
    /\ Made("allocate", Buffer_allocate(views, buffers, data, allocOk), data)

\* FusilliHandle::allocateBuffer(shape, data)
HandleAllocateBuffer(h, data, allocOk) ==
    /\ h \in LiveHandles
    /\ Len(buffers) < MaxBuffers /\ Len(views) < MaxViews
    /\ CanFault(Count(~allocOk))
    /\ hist' = [hist EXCEPT !.faults = @ + Count(~allocOk)]
    /\ Made("allocateBuffer", allocateBuffer(views, buffers, data, allocOk),
            data)

\* Buffer::import(externalBufferView), with null or with a view its owner
\* holds.
BufferImport(v) ==
    /\ Len(buffers) < MaxBuffers
    /\ v = NullView \/ (v \in DOMAIN views /\ views[v].ext > 0)
    /\ \E r \in {Buffer_import(views, buffers, v)} :
        /\ views' = r.views
        /\ buffers' = r.buffers
        /\ last' = [Obs("import") EXCEPT !.err = r.err, !.obj = r.buf,
                                          !.view = v]
    /\ UNCHANGED <<graphState, devices, instanceRefs, weakInstance, handles, pack,
                   hist>>

\* Buffer::Buffer()
BufferDefault ==
    /\ Len(buffers) < MaxBuffers
    /\ buffers' = Append(buffers, Buffer(NullView))
    /\ last' = [Obs("Buffer") EXCEPT !.obj = Len(buffers) + 1]
    /\ UNCHANGED <<graphState, devices, instanceRefs, weakInstance, handles, views,
                   pack, hist>>

\* A Buffer goes out of scope.
BufferDestroy(b) ==
    /\ b \in LiveBuffers
    /\ \A t \in DOMAIN pack : pack[t] # b
    /\ \E r \in {Buffer_destroy(views, buffers, b)} :
        /\ views' = r.views
        /\ buffers' = r.buffers
    /\ last' = [Obs("~Buffer") EXCEPT !.obj = b, !.view = buffers[b].view]
    /\ UNCHANGED <<graphState, devices, instanceRefs, weakInstance, handles, pack,
                   hist>>

\* Buffer::read(handle, out)
BufferRead(h, b) ==
    /\ h \in LiveHandles
    /\ b \in LiveBuffers
    /\ \E r \in Buffer_read(views, buffers, b) :
        last' = [Obs("read") EXCEPT !.obj = b, !.ret = r,
                                    !.view = buffers[b].view]
    /\ UNCHANGED <<graphState, runtimeVars, hist>>

\* An owner outside the library allocates a view of its own.
ExternalAllocate(data) ==
    /\ Len(views) < MaxViews
    /\ views' = Append(views, [refs |-> 1, ext |-> 1, data |-> data,
                                popped |-> FALSE])
    /\ last' = [Obs("externalAllocate") EXCEPT !.view = Len(views) + 1]
    /\ UNCHANGED <<graphState, devices, instanceRefs, weakInstance, handles, buffers,
                   pack, hist>>

\* The owner outside the library releases its reference.
ExternalRelease(v) ==
    /\ v \in DOMAIN views /\ views[v].ext > 0
    /\ views' = [iree_hal_buffer_view_release(views, v) EXCEPT ![v].ext = @ - 1]
    /\ last' = [Obs("externalRelease") EXCEPT !.view = v]
    /\ UNCHANGED <<graphState, devices, instanceRefs, weakInstance, handles, buffers,
                   pack, hist>>

\* The handles of one process: created, for either backend, and destroyed.
NextHandle ==
    \/ \E b \in Backends, i, d \in BOOLEAN : HandleCreate(b, i, d)
    \/ \E h \in DOMAIN handles : HandleDestroy(h)

SpecHandle == Init /\ [][NextHandle]_vars

\* The Buffers of one process, apart from any Graph: made by the factories
\* on a handle of the CPU backend, read, and destroyed; views of an owner
\* outside the library come and go.
NextBuffer ==
    \/ HandleCreate("CPU", TRUE, TRUE)
    \/ \E h \in DOMAIN handles, d \in HostData, k \in BOOLEAN :
          BufferAllocate(h, d, k)
    \/ \E h \in DOMAIN handles, d \in HostData, k \in BOOLEAN :
          HandleAllocateBuffer(h, d, k)
    \/ \E v \in {NullView} \cup DOMAIN views : BufferImport(v)
    \/ BufferDefault
    \/ \E b \in DOMAIN buffers : BufferDestroy(b)
    \/ \E h \in DOMAIN handles, b \in DOMAIN buffers : BufferRead(h, b)
    \/ \E d \in HostData : ExternalAllocate(d)
    \/ \E v \in DOMAIN views : ExternalRelease(v)

SpecBuffer == Init /\ [][NextBuffer]_vars

\* Buffer::reset(newBufferView) with null, or with a view the runtime has
\* just handed to the caller (popped from the outputs of a call), whose one
\* reference the caller passes on.
BufferReset(b, fresh) ==
    /\ b \in LiveBuffers
    /\ fresh => Len(views) < MaxViews
    /\ \E vs \in {IF fresh
                  THEN iree_runtime_call_outputs_pop_front_buffer_view(
                           views, "ones")
                  ELSE views},
          v \in {IF fresh THEN Len(views) + 1 ELSE NullView} :
          \E r \in {Buffer_reset(vs, buffers, b, v)} :
             /\ views' = r.views
             /\ buffers' = r.buffers
             /\ last' = [Obs("reset") EXCEPT !.obj = b, !.view = v]
    /\ UNCHANGED <<graphState, devices, instanceRefs, weakInstance, handles, pack,
                   hist>>

\* Buffer b(std::move(src))
BufferMove(src) ==
    /\ src \in LiveBuffers
    /\ Len(buffers) < MaxBuffers
    /\ buffers' = Buffer_move(buffers, src)
    /\ last' = [Obs("move") EXCEPT !.obj = Len(buffers) + 1, !.src = src,
                                    !.view = buffers[src].view]
    /\ UNCHANGED <<graphState, devices, instanceRefs, weakInstance, handles, views,
                   pack, hist>>

\* dst = std::move(src), of two Buffers
BufferMoveAssign(dst, src) ==
    /\ dst \in LiveBuffers /\ src \in LiveBuffers /\ dst # src
    /\ \E r \in {Buffer_moveAssign(views, buffers, dst, src)} :
        /\ views' = r.views
        /\ buffers' = r.buffers
    /\ last' = [Obs("moveAssign") EXCEPT !.obj = dst, !.src = src,
                                          !.view = buffers[src].view]
    /\ UNCHANGED <<graphState, devices, instanceRefs, weakInstance, handles, pack,
                   hist>>

\* The Buffers of one process through their whole life: allocated, imported,
\* default-constructed, reset, moved and destroyed.
NextOwn ==
    \/ HandleCreate("CPU", TRUE, TRUE)
    \/ \E h \in DOMAIN handles, d \in HostData, k \in BOOLEAN :
          BufferAllocate(h, d, k)
    \/ \E v \in {NullView} \cup DOMAIN views : BufferImport(v)
    \/ BufferDefault
    \/ \E b \in DOMAIN buffers, f \in BOOLEAN : BufferReset(b, f)
    \/ \E b \in DOMAIN buffers : BufferMove(b)
    \/ \E d, b \in DOMAIN buffers : BufferMoveAssign(d, b)
    \/ \E b \in DOMAIN buffers : BufferDestroy(b)
    \/ \E d \in HostData : ExternalAllocate(d)
    \/ \E v \in DOMAIN views : ExternalRelease(v)

SpecOwn == Init /\ [][NextOwn]_vars

-----------------------------------------------------------------------------
(* FusilliHandle member by member: threads that create, move and destroy
   handles interleave between the operations on instance_ and device_ *)

MaxSlots == 3

\* IreeHalDeviceDeleter: releases a device that is not null.
IreeHalDeviceDeleter(ds, d) ==
    IF d # 0 THEN [ds EXCEPT ![d].refs = @ - 1] ELSE ds

\* The end of the life of an instance_ member: a reference is given up if
\* the pointer is not null.
InstanceRelease(refs, i) ==
    IF i # 0 THEN [refs EXCEPT ![i] = @ - 1] ELSE refs

\* The FusilliHandle that create constructs: instance_ set, device_ null.
\* pc is where the thread that works on the handle stands.
HandleObject(backend, instance) ==
    [alive |-> TRUE, backend |-> backend, instance |-> instance,
     device |-> 0, pc |-> "made", from |-> 0]

\* The handles a caller holds and may move or destroy.
HeldHandles == {h \in DOMAIN handles : handles[h].pc = "live"}

\* FusilliHandle::create, first statement: createSharedInstance, which is
\* thread-safe, and the construction of the local handle.
CreateInstance(backend, instOk) ==
    /\ Len(handles) < MaxSlots
    /\ CanFault(Count(~instOk))
    /\ \E r \in {createSharedInstance(instanceRefs, weakInstance, instOk)} :
        /\ instanceRefs' = r.instanceRefs
        /\ weakInstance' = r.weakInstance
        /\ handles' = IF r.err = "ok"
                       THEN Append(handles, HandleObject(backend, r.instance))
                       ELSE handles
        /\ last' = [Obs("createSharedInstance") EXCEPT
                      !.err = r.err, !.backend = backend,
                      !.obj = IF r.err = "ok" THEN Len(handles) + 1 ELSE 0]
    /\ hist' = [hist EXCEPT !.faults = @ + Count(~instOk)]
    /\ UNCHANGED <<graphState, devices, views, buffers, pack>>

\* FusilliHandle::create, second statement: createPerHandleDevice; on
\* success the handle is returned, on failure create returns the error and
\* the local handle goes out of scope.
CreateDevice(h, devOk) ==
    /\ h \in DOMAIN handles /\ handles[h].pc = "made"
    /\ CanFault(Count(~devOk))
    /\ devices' = IF devOk
                   THEN Append(devices, [instance |-> handles[h].instance,
                                         refs |-> 1])
                   ELSE devices
    /\ handles' = IF devOk
                   THEN [handles EXCEPT ![h].device = Len(devices) + 1,
                                        ![h].pc = "live"]
                   ELSE [handles EXCEPT ![h].pc = "failed"]
    /\ last' = [Obs("createPerHandleDevice") EXCEPT
                  !.err = IF devOk THEN "ok" ELSE "RuntimeFailure", !.obj = h]
    /\ hist' = [hist EXCEPT !.faults = @ + Count(~devOk)]
    /\ UNCHANGED <<graphState, instanceRefs, weakInstance, views, buffers,
                   pack>>

\* FusilliHandle(FusilliHandle &&): instance_ and device_ are moved into
\* the new handle; the source is left with two null pointers.
HandleMove(src) ==
    /\ src \in HeldHandles
    /\ Len(handles) < MaxSlots
    /\ handles' = Append([handles EXCEPT ![src].instance = 0,
                                          ![src].device = 0],
                          [handles[src] EXCEPT !.from = src])
    /\ last' = [Obs("moveHandle") EXCEPT !.obj = Len(handles) + 1,
                                          !.src = src]
    /\ UNCHANGED <<graphState, instanceRefs, weakInstance, devices, views,
                   buffers, pack, hist>>

\* operator=(FusilliHandle &&), the members in the order of declaration;
\* first instance_ = std::move(src.instance_): the target gives up the
\* reference it held.
MoveAssignInstance(dst, src) ==
    /\ dst \in HeldHandles /\ src \in HeldHandles /\ dst # src
    /\ instanceRefs' = InstanceRelease(instanceRefs, handles[dst].instance)
    /\ handles' = [handles EXCEPT ![dst].instance = handles[src].instance,
                                   ![dst].pc = "assigning",
                                   ![dst].from = src,
                                   ![src].instance = 0,
                                   ![src].pc = "source"]
    /\ last' = [Obs("moveAssignInstance") EXCEPT !.obj = dst, !.src = src]
    /\ UNCHANGED <<graphState, weakInstance, devices, views, buffers, pack,
                   hist>>

\* then device_ = std::move(src.device_): the deleter gets the device the
\* target held.
MoveAssignDevice(dst) ==
    /\ dst \in DOMAIN handles /\ handles[dst].pc = "assigning"
    /\ devices' = IreeHalDeviceDeleter(devices, handles[dst].device)
    /\ handles' = [handles EXCEPT
                     ![dst].device = handles[handles[dst].from].device,
                     ![dst].pc = "live",
                     ![handles[dst].from].device = 0,
                     ![handles[dst].from].pc = "live"]
    /\ last' = [Obs("moveAssignDevice") EXCEPT !.obj = dst,
                                                !.src = handles[dst].from]
    /\ UNCHANGED <<graphState, instanceRefs, weakInstance, views, buffers,
                   pack, hist>>

\* ~FusilliHandle, the members in the reverse order of declaration; first
\* device_.
DestroyDevice(h) ==
    /\ h \in DOMAIN handles /\ handles[h].pc \in {"live", "failed"}
    /\ devices' = IreeHalDeviceDeleter(devices, handles[h].device)
    /\ handles' = [handles EXCEPT ![h].pc = "deviceGone"]
    /\ last' = [Obs("~device_") EXCEPT !.obj = h]
    /\ UNCHANGED <<graphState, instanceRefs, weakInstance, views, buffers,
                   pack, hist>>

\* then instance_.
DestroyInstance(h) ==
    /\ h \in DOMAIN handles /\ handles[h].pc = "deviceGone"
    /\ instanceRefs' = InstanceRelease(instanceRefs, handles[h].instance)
    /\ handles' = [handles EXCEPT ![h].pc = "dead", ![h].alive = FALSE]
    /\ last' = [Obs("~instance_") EXCEPT !.obj = h]
    /\ UNCHANGED <<graphState, weakInstance, devices, views, buffers, pack,
                   hist>>

\* Threads of one process that create handles, move them and let them go
\* out of scope, in every interleaving of their steps.
NextThreads ==
    \/ \E i \in BOOLEAN : CreateInstance("CPU", i)
    \/ \E h \in DOMAIN handles, d \in BOOLEAN : CreateDevice(h, d)
    \/ \E h \in DOMAIN handles : HandleMove(h)
    \/ \E d, h \in DOMAIN handles : MoveAssignInstance(d, h)
    \/ \E h \in DOMAIN handles : MoveAssignDevice(h)
    \/ \E h \in DOMAIN handles : DestroyDevice(h)
    \/ \E h \in DOMAIN handles : DestroyInstance(h)

SpecThreads == Init /\ [][NextThreads]_vars

-----------------------------------------------------------------------------
(* Graph::execute with its variant pack *)


\* What the compiled module computes for the result named n.
Result(n) == "result:" \o n

\* The conversion of each Buffer of the argument list, in order.  Returns
\* [buffers, args]: the Buffers after the conversions, the raw pointers.
RECURSIVE pushArguments(_, _, _)
pushArguments(bs, vp, ts) ==
    IF Len(ts) = 0 THEN [buffers |-> bs, args |-> <<>>]
    ELSE LET Rest(raw, rest) ==
                 [buffers |-> rest.buffers, args |-> <<raw.view>> \o rest.args]
             Next(raw) ==
                 Rest(raw, pushArguments(raw.buffers, vp, Tail(ts)))
         IN Next(getBufferView(bs, vp[ts[1]]))

\* After the call, for each graph output in order: a placeholder Buffer is
\* reset to the view popped for the result of that position; a Buffer that
\* held a view was the destination and holds the result in it.  Returns
\* [views, buffers].
RECURSIVE popOutputs(_, _, _, _, _, _)
popOutputs(vs, bs, vp, outs, args, res) ==
    IF Len(outs) = 0 THEN [views |-> vs, buffers |-> bs]
    ELSE LET Rest(r) ==
                 popOutputs(r.views, r.buffers, vp, Tail(outs), Tail(args),
                            Tail(res))
         IN IF args[1] = NullView
            THEN Rest(Buffer_reset(
                         iree_runtime_call_outputs_pop_front_buffer_view(
                             vs, Result(res[1])),
                         bs, vp[outs[1]], Len(vs) + 1))
            ELSE Rest([views |-> [vs EXCEPT ![args[1]].data = Result(res[1])],
                       buffers |-> bs])

\* Graph::execute(variantPack): the session guard, then the arguments in the
\* order of the parameters of main (the outputs of the sorted view, then the
\* inputs of the sorted view), the call, and the outputs.  The runtime
\* rejects a call whose arguments do not fit the loaded module, or whose
\* input is null.  Returns [err, rtCalls, views, buffers, pushed].
executeWith(vp, rtOk) ==
    LET loaded == hist.loaded
        order == outputsSorted \o inputsSorted
        nOut == Len(outputsSorted)
        Call(g, p) ==
            IF g.err # "ok"
            THEN [err |-> g.err, rtCalls |-> g.rtCalls, views |-> views,
                  buffers |-> IF g.rtCalls = 0 THEN buffers ELSE p.buffers,
                  pushed |-> IF g.rtCalls = 0 THEN <<>>
                             ELSE Names(tensors, order)]
            ELSE IF \/ nOut # Len(loaded.results)
                    \/ Len(inputsSorted) # Len(loaded.operands)
                    \/ \E i \in (nOut + 1)..Len(order) : p.args[i] = NullView
            THEN [err |-> "RuntimeFailure", rtCalls |-> g.rtCalls,
                  views |-> views, buffers |-> p.buffers,
                  pushed |-> Names(tensors, order)]
            ELSE LET Done(r) ==
                         [err |-> "ok", rtCalls |-> g.rtCalls,
                          views |-> r.views, buffers |-> r.buffers,
                          pushed |-> Names(tensors, order)]
                 IN Done(popOutputs(views, p.buffers, vp,
                                    SubSeq(order, 1, nOut),
                                    SubSeq(p.args, 1, nOut), loaded.results))
    IN  Call(execute(rtOk), pushArguments(buffers, vp, order))

\* The variant packs that give every tensor of the graph a live Buffer of its
\* own.
VariantPacks ==
    {vp \in [DOMAIN tensors -> LiveBuffers] :
        \A t, u \in DOMAIN tensors : t # u => vp[t] # vp[u]}

\* The application builds its variant pack.
BindPack(vp) ==
    /\ pack = <<>>
    /\ tensors # <<>>
    /\ vp \in VariantPacks
    /\ pack' = vp
    /\ last' = Obs("variantPack")
    /\ UNCHANGED <<graphState, devices, instanceRefs, weakInstance, handles, views,
                   buffers, hist>>

\* Graph::execute(variantPack) with the pack the application has built, a
\* Buffer for every tensor of the graph.
ExecuteWith(rtOk) ==
    /\ CanCall
    /\ CanFault(Count(~rtOk))
    /\ DOMAIN pack = DOMAIN tensors
    /\ \E r \in {executeWith(pack, rtOk)} :
        /\ views' = r.views
        /\ buffers' = r.buffers
        /\ last' = [Obs("execute") EXCEPT !.err = r.err,
                                          !.rtCalls = r.rtCalls,
                                          !.pushed = r.pushed,
                                          !.reset = {b \in DOMAIN buffers :
                                              buffers[b].view # r.buffers[b].view}]
    /\ hist' = [hist EXCEPT !.calls = @ + 1, !.faults = @ + Count(~rtOk)]
    /\ UNCHANGED <<graphState, devices, instanceRefs, weakInstance, handles, pack>>

\* The application of the convolution sample: it names the graph and builds
\* a chain of convolutions, validates it and compiles it for the CPU; then it
\* creates its handle, allocates the Buffers of the inputs, makes empty
\* Buffers for the outputs, and executes with one variant pack, reading
\* Buffers back in between.
NextExec ==
    \/ name = "" /\ SetName("n1")
    \/ \E n \in {"", "a"} :
          ~isValidated /\ Cardinality(inputs) < 1 /\ Tensor(n, TRUE)
    \/ \E x, w \in DOMAIN tensors, n \in NodeNames :
          ~isValidated /\ ConvFPropWithin(MaxChain, x, w, n)
    \/ session = "none" /\ Validate
    \/ session = "none" /\ EmitAsm
    \/ \E o \in {c \in CompilerOutcomes : c.exit = 0} :
          CompileWithin(MaxCompiles, "CPU", FALSE, o, TRUE)
    \/ session # "none" /\ handles = <<>> /\ HandleCreate("CPU", TRUE, TRUE)
    \/ \E h \in DOMAIN handles, d \in HostData :
          pack = <<>> /\ BufferAllocate(h, d, TRUE)
    \/ handles # <<>> /\ pack = <<>> /\ BufferDefault
    \/ \E vp \in [DOMAIN tensors -> DOMAIN buffers] : BindPack(vp)
    \/ \E k \in BOOLEAN : ExecuteWith(k)
    \/ \E h \in DOMAIN handles, b \in DOMAIN buffers :
          pack # <<>> /\ BufferRead(h, b)

SpecExec == Init /\ [][NextExec]_vars

-----------------------------------------------------------------------------
(* The cache contract *)

\* A step that is a call of getCompiledArtifact; the primed observation
\* holds its arguments and results, the unprimed variables the state before.
GetCompiledArtifactStep ==
    /\ hist'.calls = hist.calls + 1
    /\ last'.op = "getCompiledArtifact"

\* The compiler invocation a regenerating call makes: on the assembly passed
\* in, with the command built for the backend passed in.
ExpectedRun(o) ==
    [asm |-> o.asm,
     cmd |-> buildCompileCommand(o.backend,
                                 GetPath(o.gname, IREE_COMPILE_INPUT_FILENAME),
                                 GetPath(o.gname, IREE_COMPILE_OUTPUT_FILENAME))]

\* What a call that found no valid cache does: it never reports
\* reCompiled = false, it invokes the compiler on its own assembly and
\* command unless a file operation failed first, and when it returns a path
\* it has set reCompiled to true and the path is the canonical output path.
Regenerates(o) ==
    /\ o.vc = "miss"
    /\ o.reCompiled # "false"
    /\ o.err # "FileSystemFailure" => o.runs = <<ExpectedRun(o)>>
    /\ o.err = "ok" =>
          /\ o.reCompiled = "true"
          /\ o.ret = GetPath(o.gname, IREE_COMPILE_OUTPUT_FILENAME)

C2_RenameInvalidates ==
    [][(/\ GetCompiledArtifactStep
        /\ last.op = "setName" /\ last.prev = "getCompiledArtifact"
        /\ last.err = "ok"
        /\ last.from # last.gname)
       => (/\ Regenerates(last')
           /\ last'.gname = last.gname
           /\ last'.ret # last.ret
           /\ last'.err = "ok" => cache'.output # cache.output)]_vars

\* A call after a rename has regenerated under the new name, and the files
\* of the old name are still where the first call wrote them.
C2_Witness ==
    /\ last.op = "getCompiledArtifact" /\ last.prev = "renamed"
    /\ last.from = "n1" /\ last.gname = "n 2"
    /\ last.err = "ok" /\ last.reCompiled = "true"
    /\ last.ret = GetPath("n 2", IREE_COMPILE_OUTPUT_FILENAME)
    /\ cache.output = last.ret
    /\ Exists(fs, GetPath("n1", IREE_COMPILE_OUTPUT_FILENAME))

C4_FirstCallRegenerates ==
    [][(GetCompiledArtifactStep /\ hist.calls = 0) => Regenerates(last')]_vars

\* The first call found identical files on disk and compiled all the same.
C4_Witness ==
    /\ hist.calls = 1
    /\ last.op = "getCompiledArtifact" /\ last.onDisk
    /\ last.err = "ok" /\ last.reCompiled = "true"
    /\ last.runs = <<ExpectedRun(last)>>

\* The four conditions of the cache validity check, for the call observed in
\* o, in the state before the call.
RecordPopulated == cache.set

PathsCanonical ==
    /\ cache.input = GetPath(name, IREE_COMPILE_INPUT_FILENAME)
    /\ cache.output = GetPath(name, IREE_COMPILE_OUTPUT_FILENAME)
    /\ cache.compileCommand = GetPath(name, IREE_COMPILE_COMMAND_FILENAME)

InputMatches(o) ==
    fs[GetPath(name, IREE_COMPILE_INPUT_FILENAME)] = o.asm

CommandMatches(o) ==
    fs[GetPath(name, IREE_COMPILE_COMMAND_FILENAME)] = ExpectedRun(o).cmd

FourConditions(o) ==
    RecordPopulated /\ PathsCanonical /\ InputMatches(o) /\ CommandMatches(o)

RecordedFilesExist ==
    /\ Exists(fs, cache.input)
    /\ Exists(fs, cache.output)
    /\ Exists(fs, cache.compileCommand)

\* C5 as stated: the validity check returns hit if and only if the four
\* conditions hold, and miss in every other situation, recorded files that
\* are no longer on disk included.
C5_HitIffFourElseMiss ==
    [][GetCompiledArtifactStep
       => (/\ last'.vc = "hit" <=> FourConditions(last')
           /\ ~FourConditions(last') => last'.vc = "miss")]_vars

\* C5, amended: the validity check returns hit if and only if the four
\* conditions hold and the three recorded files are on disk; with a populated
\* record and canonical paths but a recorded file missing it returns the
\* error of the failed open (getCompiledArtifact fails with it and changes
\* nothing); in every other situation it returns miss.
C5_HitIffFourAndFilesExist ==
    [][GetCompiledArtifactStep
       => (/\ last'.vc = "hit"
                 <=> (FourConditions(last') /\ RecordedFilesExist)
           /\ last'.vc = "error"
                 <=> (RecordPopulated /\ PathsCanonical /\ ~RecordedFilesExist)
           /\ last'.vc \in {"hit", "miss", "error"}
           /\ last'.vc = "error"
                 => (/\ last'.err = "FileSystemFailure"
                     /\ last'.reCompiled = "unset"
                     /\ fs' = fs /\ cache' = cache))]_vars

\* A call found its record's output file gone and failed on the open.
C5_Witness ==
    /\ last.op = "getCompiledArtifact" /\ last.vc = "error"
    /\ cache.set /\ ~Exists(fs, cache.output)
    /\ Exists(fs, cache.input) /\ Exists(fs, cache.compileCommand)
    /\ fs[cache.input] = last.asm
    /\ fs[cache.compileCommand] = ExpectedRun(last).cmd

-----------------------------------------------------------------------------
(* The life-cycle contract *)

\* Steps that are a call of validate, emitAsm, compile, execute.
ValidateStep == last'.op = "validate"

EmitAsmStep == last'.op = "emitAsm"

CompileStep == last'.op = "compile" /\ hist'.compiles = hist.compiles + 1

ExecuteStep == last'.op = "execute"

\* The Graph and the file system are as before the step.
NothingChanged ==
    UNCHANGED <<name, isValidated, session, cache, fs, tensors, inputs, outputs,
                subNodes, inputsSorted, outputsSorted>>

\* C6: compile and emitAsm called on a Graph on which no validate has
\* succeeded return NotValidated and leave the Graph and the file system
\* unchanged: no cache file written, no compiler run, cache record and
\* session as they were.
C6_NotValidatedNoEffect ==
    [][((CompileStep \/ EmitAsmStep) /\ ~hist.validated)
       => (/\ last'.err = "NotValidated"
           /\ last'.runs = <<>>
           /\ last'.writes = {}
           /\ last'.asm = ""
           /\ NothingChanged)]_vars

\* compile was refused on a named graph holding a node, never validated.
C6_Witness ==
    /\ last.op = "compile" /\ last.err = "NotValidated"
    /\ ~hist.validated /\ name # "" /\ Len(subNodes) > 0
    /\ ~cache.set /\ session = "none" /\ fs = NoFiles

\* C7: execute on a Graph holding no live session returns an error and makes
\* no runtime call; a session is live only after a compile has succeeded, a
\* compile succeeds only after a validate has, so execute can succeed only
\* after both.
C7_ExecuteNeedsSession ==
    [][(/\ ExecuteStep =>
              /\ session = "none" => (last'.err # "ok" /\ last'.rtCalls = 0)
              /\ last'.err = "ok" => (hist.validated /\ hist.compiled)
              /\ NothingChanged)
       /\ (~hist'.compiled => session' = "none")
       /\ (hist'.compiled => hist'.validated)]_vars

\* execute has succeeded, on a session holding the compiled module.
C7_Witness ==
    /\ last.op = "execute" /\ last.err = "ok" /\ last.rtCalls = 1
    /\ hist.validated /\ hist.compiled
    /\ session = "session:" \o fs[cache.output]

\* C8 as stated: whenever validate returns an error, isValidated is false
\* after the call, and a compile or emitAsm that follows returns
\* NotValidated.
C8_ErrorMeansNotValidated ==
    [][(/\ (ValidateStep /\ last'.err # "ok") => ~isValidated'
        /\ (/\ last.op = "validate" /\ last.err # "ok"
            /\ (CompileStep \/ EmitAsmStep))
              => last'.err = "NotValidated")]_vars

\* C8, amended: a validate that returns an error leaves isValidated as it
\* was, which is false exactly when no earlier validate has succeeded; a
\* compile or emitAsm that follows returns NotValidated in that case, and
\* is accepted when an earlier validate succeeded.
C8_ErrorKeepsFlag ==
    [][(/\ (ValidateStep /\ last'.err # "ok")
              => (isValidated' = isValidated /\ isValidated' = hist.validated)
        /\ (/\ last.op = "validate" /\ last.err # "ok"
            /\ (CompileStep \/ EmitAsmStep))
              => (last'.err = "NotValidated" <=> ~hist.validated))]_vars

\* validate has returned an error on a graph that an earlier validate had
\* accepted, and the flag is still raised.
C8_Witness ==
    /\ last.op = "validate" /\ last.err # "ok"
    /\ hist.validated /\ isValidated
    /\ emitAsm.err = "ok"

\* C9: validate on a Graph whose name is empty returns AttributeNotSet
\* before any hook, sub-node or tensor is reached: no tensor has properties
\* inferred, the sorted views are not filled, and isValidated is not set.
C9_EmptyNameFirst ==
    [][(ValidateStep /\ name = "")
       => (/\ last'.err = "AttributeNotSet"
           /\ last'.visited = <<>>
           /\ NothingChanged)]_vars

\* validate refused an unnamed graph that it would accept under a name.
C9_Witness ==
    /\ last.op = "validate" /\ last.err = "AttributeNotSet"
    /\ last.visited = <<>>
    /\ name = "" /\ ~isValidated /\ Len(subNodes) > 0
    /\ validateSubtree.err = "ok"
    /\ tensorsValid(validateSubtree.tensors, inputs \cup outputs)
    /\ inputsSorted = <<>>

\* The symbols of the graph: its input tensors, its output tensors and its
\* nodes, each with its name.
Symbols ==
    {<<"tensor", t, tensors[t].name>> : t \in inputs \cup outputs}
      \cup {<<"node", i, subNodes[i].name>> : i \in 1..Len(subNodes)}

NamesDistinct == \A a, b \in Symbols : a # b => a[3] # b[3]

\* C10 as stated: validate succeeds only if all names are pairwise distinct
\* across input tensors, output tensors and nodes; if two of them share a
\* name validate returns InvalidAttribute and does not set isValidated.
C10_DuplicateIsInvalidAttribute ==
    [][ValidateStep
       => (/\ last'.err = "ok" => NamesDistinct
           /\ ~NamesDistinct => (/\ last'.err = "InvalidAttribute"
                                 /\ isValidated' = isValidated))]_vars

\* C10, amended: validate succeeds only if all names are pairwise distinct;
\* if two of them share a name and the graph name is not empty, validate
\* returns InvalidAttribute, stops at preValidateNode and does not set
\* isValidated (with an empty graph name it returns AttributeNotSet).
C10_DuplicateIsInvalidAttributeIfNamed ==
    [][ValidateStep
       => (/\ last'.err = "ok" => NamesDistinct
           /\ (~NamesDistinct /\ name # "")
                 => (/\ last'.err = "InvalidAttribute"
                     /\ last'.visited = <<"preValidateNode">>
                     /\ NothingChanged)
           /\ (~NamesDistinct /\ name = "")
                 => last'.err = "AttributeNotSet")]_vars

\* validate refused a named graph whose input tensor has the name of the
\* node's output tensor.
C10_Witness ==
    /\ last.op = "validate" /\ last.err = "InvalidAttribute"
    /\ name # ""
    /\ \E t \in inputs, u \in outputs : tensors[t].name = tensors[u].name
    /\ ~isValidated

-----------------------------------------------------------------------------
(* Failure of the external compiler *)

\* C11: when the external compiler exits with a non-zero code, compile
\* returns CompileFailure, the cache record of the Graph is the one it had
\* before the call (unset if there was none), and the session is the one it
\* had before the call: that call creates none.
C11_CompileFailureKeepsState ==
    [][(CompileStep /\ last'.exit = "nonzero")
       => (/\ last'.err = "CompileFailure"
           /\ cache' = cache
           /\ session' = session)]_vars

\* A compile call whose compiler run failed, on a Graph that holds the
\* record and the session of an earlier successful compile.
C11_Witness ==
    /\ last.op = "compile" /\ last.exit = "nonzero"
    /\ last.err = "CompileFailure"
    /\ hist.compiles = 2 /\ hist.compiled
    /\ cache.set /\ session # "none"

-----------------------------------------------------------------------------
(* Buffers across execute *)

\* A step that is a call of execute with the variant pack.
ExecuteWithStep == last'.op = "execute" /\ hist'.calls = hist.calls + 1

\* The Buffer the variant pack gives tensor t, before and after a step.
BufferOf(t) == buffers[pack[t]]

BufferAfter(t) == buffers'[pack[t]]

\* Every reference to a view has its owner: a live Buffer or the owner
\* outside the library.
NoViewLeaked(vs, bs) ==
    \A v \in DOMAIN vs : vs[v].refs = vs[v].ext + Owners(bs, v)

\* C12: destination passing.  After a successful execute every Buffer the
\* variant pack gives a graph output holds a view that is not null, a
\* placeholder (null view) included; that holds again after every later
\* execute with the same pack, the Buffer then owns exactly one view, no
\* Buffer has been added, and a view the Buffer held before is either the
\* one it holds now or has been released: no reference is left without
\* owner.
C12_DestinationPassing ==
    [][(ExecuteWithStep /\ last'.err = "ok")
       => (/\ Len(buffers') = Len(buffers)
           /\ \A t \in outputs :
                 /\ BufferAfter(t).alive
                 /\ BufferAfter(t).view # NullView
                 /\ views'[BufferAfter(t).view].refs = 1
                 /\ Owners(buffers', BufferAfter(t).view) = 1
                 /\ BufferOf(t).view # NullView
                       => \/ BufferAfter(t).view = BufferOf(t).view
                          \/ views'[BufferOf(t).view].refs = 0
           /\ NoViewLeaked(views', buffers'))]_vars

\* The second successful execute with one pack: the Buffer of an output,
\* empty when the pack was built, holds the view popped by the first.
C12_Witness ==
    /\ last.op = "execute" /\ last.err = "ok" /\ hist.calls = 2
    /\ last.reset = {}
    /\ \E t \in outputs :
          /\ buffers[pack[t]].view # NullView
          /\ views[buffers[pack[t]].view].popped
          /\ views[buffers[pack[t]].view].refs = 1

\* A step that is a call of Buffer::read.
ReadStep == last'.op = "read"

\* C13: execute does not release the views of the input Buffers.  Across
\* every execute call each Buffer the variant pack gives a graph input holds
\* the view it held, with the reference count and the data it had; and a
\* read of such a Buffer after execute calls returns the host values its
\* view was allocated with.
C13_InputsKept ==
    [][/\ ExecuteWithStep
          => \A t \in inputs :
                /\ BufferAfter(t) = BufferOf(t)
                /\ BufferOf(t).view # NullView
                      => views'[BufferOf(t).view] = views[BufferOf(t).view]
       /\ (/\ ReadStep
           /\ hist.calls > 0
           /\ \E t \in inputs : pack[t] = last'.obj
           /\ last'.view # NullView)
          => (/\ last'.ret \in HostData
              /\ last'.ret = views[last'.view].data
              /\ ~views[last'.view].popped)]_vars

\* After two successful executes the read of an input Buffer has returned
\* the values it was allocated with.
C13_Witness ==
    /\ last.op = "read" /\ hist.calls = 2 /\ hist.faults = 0
    /\ \E t \in inputs : pack[t] = last.obj
    /\ last.ret \in HostData
    /\ views[buffers[last.obj].view].refs = 1

\* A sequence of names in strictly ascending order.
NameSorted(names) ==
    \A i, j \in 1..Len(names) : i < j => Rank(names[i]) < Rank(names[j])

-----------------------------------------------------------------------------
(* Determinism of the emitted assembly *)

\* C15: emitAsm is deterministic.  Whatever the order in which the
\* unordered input and output sets deliver their tensors, a validate call
\* that fills the sorted views leaves the same views, so that the Graph a
\* sequence of builder calls and validate leads to is the same in every
\* instance; the text emitAsm returns is the text of those views and the
\* nodes; and an emitAsm call that directly follows a successful one
\* returns the same text.
C15_EmitAsmDeterministic ==
    [][/\ (ValidateStep /\ Len(last'.visited) > 1)
          => (/\ \A order \in IterationOrders(inputs) :
                    SortedInsertSeq(tensors, inputsSorted, order)
                       = inputsSorted'
              /\ \A order \in IterationOrders(outputs) :
                    SortedInsertSeq(tensors, outputsSorted, order)
                       = outputsSorted')
       /\ (EmitAsmStep /\ last'.err = "ok")
          => (/\ last'.asm = "module{" \o JoinNames(tensors, outputsSorted)
                                \o ";" \o JoinNames(tensors, inputsSorted)
                                \o ";" \o JoinNodes(subNodes) \o "}"
              /\ (last.op = "emitAsm" /\ last.err = "ok")
                    => last'.asm = last.asm)]_vars

\* emitAsm has returned the text of a validated graph whose two outputs
\* were created in the order opposite to that of their names.
C15_Witness ==
    /\ last.op = "emitAsm" /\ last.err = "ok"
    /\ Len(outputsSorted) = 2 /\ outputsSorted[1] > outputsSorted[2]
    /\ last.asm = "module{a_Y,conv_fprop_0_Y,;conv_fprop_0_X,;"
                     \o "conv_fprop_0(conv_fprop_0_X,conv_fprop_0_X),"
                     \o "a(conv_fprop_0_Y,conv_fprop_0_X),}"

-----------------------------------------------------------------------------
(* The shared runtime instance *)

\* The runtime instances that exist.
LiveInstances == {i \in DOMAIN instanceRefs : instanceRefs[i] > 0}

\* A step that is a successful FusilliHandle::create.
CreateStep == last'.op = "create" /\ Len(handles') = Len(handles) + 1

\* C16: the shared runtime instance.  At every moment at most one runtime
\* instance exists, every live handle refers to it, and it exists exactly
\* while some handle is alive; a create that finds no live handle makes a
\* new instance, a create that finds one shares its instance, and the
\* destruction of the last handle releases the instance.
C16_SharedInstance ==
    /\ [](/\ Cardinality(LiveInstances) <= 1
          /\ \A h \in LiveHandles : handles[h].instance \in LiveInstances
          /\ LiveInstances # {} <=> LiveHandles # {}
          /\ \A i \in DOMAIN instanceRefs :
                instanceRefs[i]
                   = Cardinality({h \in LiveHandles : handles[h].instance = i}))
    /\ [][CreateStep
           => IF LiveHandles = {}
              THEN /\ Len(instanceRefs') = Len(instanceRefs) + 1
                   /\ handles'[Len(handles')].instance = Len(instanceRefs')
              ELSE /\ Len(instanceRefs') = Len(instanceRefs)
                   /\ handles'[Len(handles')].instance \in LiveInstances]_vars

\* The second handle was created after the first was destroyed: it holds a
\* new instance, and the first instance is gone.
C16_Witness ==
    /\ last.op = "create" /\ last.err = "ok"
    /\ Len(handles) = 2 /\ LiveHandles = {2}
    /\ Len(instanceRefs) = 2 /\ LiveInstances = {2}
    /\ handles[2].instance = 2

-----------------------------------------------------------------------------
(* Ownership of allocated and imported views *)

\* A step that is a successful allocation by one of the two factories.
AllocationStep ==
    /\ last'.op \in {"allocate", "allocateBuffer"}
    /\ last'.err = "ok"

\* A step that destroys a Buffer.
BufferDestroyStep == last'.op = "~Buffer"

\* C17: a Buffer returned by a successful allocation (Buffer::allocate,
\* FusilliHandle::allocateBuffer) owns the newly allocated view: its view is
\* not null, it is the view the call has allocated, and that view is
\* released when the Buffer is destroyed; no allocated view is left without
\* an owner.
C17_AllocationOwned ==
    /\ [][AllocationStep
           => (/\ Len(views') = Len(views) + 1
               /\ buffers'[last'.obj].view # NullView
               /\ buffers'[last'.obj].view = Len(views')
               /\ views'[Len(views')].refs = 1)]_vars
    /\ [][(BufferDestroyStep /\ last'.view # NullView)
           => (/\ views'[last'.view].refs = views[last'.view].refs - 1
               /\ (Owners(buffers, last'.view) = 1
                      /\ views[last'.view].ext = 0)
                   => views'[last'.view].refs = 0)]_vars
    /\ []NoViewLeaked(views, buffers)

\* FusilliHandle::allocateBuffer has returned: the Buffer it returned holds
\* no view, and the view it allocated has a reference that no Buffer owns.
C17_Witness ==
    /\ last.op = "allocateBuffer" /\ last.err = "ok"
    /\ buffers[last.obj].alive /\ buffers[last.obj].view = NullView
    /\ views[Len(views)].refs = 1 /\ views[Len(views)].ext = 0
    /\ Owners(buffers, Len(views)) = 0

\* A step that is a call of Buffer::import; last'.view is its argument.
ImportStep == last'.op = "import"

\* C18: Buffer::import of a null view returns RuntimeFailure and retains
\* nothing; of any other view it returns a Buffer holding that view and adds
\* exactly one reference to it, leaving every other view alone.  The
\* destruction of a Buffer releases exactly one reference of its view, so the
\* references of the owner outside the library are always still there: a
\* view that owner has not released is alive, whatever Buffers are gone.
C18_ImportRetainsOnce ==
    /\ [][ImportStep
           => IF last'.view = NullView
              THEN /\ last'.err = "RuntimeFailure"
                   /\ views' = views /\ buffers' = buffers
              ELSE /\ last'.err = "ok"
                   /\ buffers' = Append(buffers, Buffer(last'.view))
                   /\ last'.obj = Len(buffers')
                   /\ views' = [views EXCEPT ![last'.view].refs = @ + 1]]_vars
    /\ [][(BufferDestroyStep /\ last'.view # NullView)
           => views' = [views EXCEPT ![last'.view].refs = @ - 1]]_vars
    /\ [](\A v \in DOMAIN views :
            /\ views[v].refs >= views[v].ext
            /\ views[v].ext > 0
                 => views[v].refs = views[v].ext + Owners(buffers, v))

\* A Buffer that imported a view of the outside owner has been destroyed,
\* no Buffer holds the view any more, and the owner's reference is the one
\* that is left.
C18_Witness ==
    /\ last.op = "~Buffer" /\ last.view # NullView
    /\ ~buffers[last.obj].alive
    /\ views[last.view].ext = 1 /\ views[last.view].refs = 1
    /\ Owners(buffers, last.view) = 0

-----------------------------------------------------------------------------
(* Virtual tensors and the graph's inputs and outputs *)

\* C19: a virtual tensor is neither a graph input nor a graph output, in
\* every state; and a tensor joins the graph outputs only by the step that
\* promotes it with setOutput(true), never by the operation that makes it.
C19_VirtualNotGraphIO ==
    /\ [](\A t \in inputs \cup outputs : ~tensors[t].isVirtual)
    /\ [][\A t \in outputs' \ outputs :
             last'.op = "setOutput" /\ last'.obj = t]_vars

\* convFProp has returned: its result is virtual, not promoted by anyone,
\* and a member of the graph outputs.
C19_Witness ==
    /\ last.op = "convFProp"
    /\ \E t \in outputs :
          /\ tensors[t].isVirtual
          /\ subNodes[Len(subNodes)].Y = t

-----------------------------------------------------------------------------
(* Cache files and the destruction of the Graph *)

\* A step that is the destruction of the Graph.
GraphDestroyStep == last'.op = "~Graph"

\* The step unlinks the file at path p.
Unlinked(p) == Exists(fs, p) /\ ~Exists(fs', p)

\* C20: the destruction of the Graph unlinks a cache file that a compile
\* call has written if and only if that call was given remove = true and
\* the file still exists; a file written by a compile call with
\* remove = false is on disk after the destruction, with the content it had
\* before it.
C20_RemoveOnDestroy ==
    [][GraphDestroyStep
       => \A p \in AllPaths :
            /\ hist.written[p] # "none"
                 => (Unlinked(p)
                       <=> (hist.written[p] = "remove" /\ Exists(fs, p)))
            /\ hist.written[p] = "remove" => ~Exists(fs', p)
            /\ hist.written[p] = "keep"
                 => (Exists(fs', p) /\ fs'[p] = fs[p])]_vars

\* The Graph is gone, its last successful compile call was given
\* remove = false, and the output file that call has written is not on disk.
C20_Witness ==
    /\ last.op = "~Graph"
    /\ hist.compiled
    /\ \E g \in GraphNames :
          /\ hist.written[GetPath(g, IREE_COMPILE_OUTPUT_FILENAME)] = "keep"
          /\ ~Exists(fs, GetPath(g, IREE_COMPILE_OUTPUT_FILENAME))

-----------------------------------------------------------------------------
(* The files of the cache record *)

\* The paths a cache record holds.
FilesOf(c) == IF c.set THEN {c.input, c.output, c.compileCommand} ELSE {}

\* The base names of the four files of a cache directory, as the design
\* lists them.
QuartetFileNames ==
    {"iree-compile-input.mlir", "iree-compile-output.vmfb",
     "iree-compile-command.txt", "iree-compile-statistics.json"}

\* getCompiledArtifact has just returned after a successful cache miss.
AfterSuccessfulMiss ==
    /\ last.op = "getCompiledArtifact"
    /\ last.err = "ok"
    /\ last.reCompiled = "true"

\* C21: after a successful cache miss the cache record holds exactly four
\* files, all in the directory of the graph name: the input, the output,
\* the command and the statistics file.
C21_RecordHoldsQuartet ==
    AfterSuccessfulMiss
    => FilesOf(cache) = {GetPath(name, f) : f \in QuartetFileNames}

\* A successful cache miss has recorded the three files that
\* generateCompiledArtifact creates, and no statistics file.
C21_Witness ==
    /\ AfterSuccessfulMiss
    /\ FilesOf(cache) = {GetPath(name, f) : f \in FileNames}
    /\ Cardinality(FilesOf(cache)) = 3
    /\ GetPath(name, "iree-compile-statistics.json") \notin FilesOf(cache)

-----------------------------------------------------------------------------
(* The compile command *)

\* The command line of the design for a backend, an input path and an
\* output path, written out word by word.
CommandLine(backend, inputPath, outputPath) ==
    IF backend = "CPU"
    THEN "iree-compile " \o inputPath
         \o " --iree-hal-target-backends=llvm-cpu"
         \o " --iree-llvmcpu-target-cpu=host"
         \o " -o " \o outputPath \o "\n"
    ELSE "iree-compile " \o inputPath
         \o " --iree-hal-target-backends=rocm"
         \o " --iree-hip-target=gfx942"
         \o " --iree-opt-level=O3"
         \o " -o " \o outputPath \o "\n"

\* The command file of the current graph name.
CommandPath == GetPath(name, IREE_COMPILE_COMMAND_FILENAME)

\* C22: the compile command is the compiler path, the input path, the flags
\* of the backend in their fixed order, "-o" and the output path, joined by
\* single spaces and ended by one newline; it is determined by the backend
\* and the two paths alone (not by the assembly, the remove argument or what
\* the cache held); and whenever the compiler is invoked, the command it is
\* invoked with is the text that was written to the command file.
C22_CompileCommand ==
    /\ \A b \in Backends, g \in GraphNames :
          buildCompileCommand(b, GetPath(g, IREE_COMPILE_INPUT_FILENAME),
                              GetPath(g, IREE_COMPILE_OUTPUT_FILENAME))
            = CommandLine(b, GetPath(g, IREE_COMPILE_INPUT_FILENAME),
                          GetPath(g, IREE_COMPILE_OUTPUT_FILENAME))
    /\ (last.op = "getCompiledArtifact" /\ last.runs # <<>>)
         => /\ last.runs[1].cmd
                 = CommandLine(last.backend,
                               GetPath(name, IREE_COMPILE_INPUT_FILENAME),
                               GetPath(name, IREE_COMPILE_OUTPUT_FILENAME))
            /\ CacheFile_read(fs, CommandPath) = last.runs[1].cmd

\* The second call of a run, directly after a successful one, has invoked
\* the compiler for the GFX942 backend, and the command file holds the
\* command of that invocation.
C22_Witness ==
    /\ last.op = "getCompiledArtifact" /\ last.runs # <<>>
    /\ last.backend = "GFX942"
    /\ last.prev = "ok"
    /\ CacheFile_read(fs, CommandPath) = last.runs[1].cmd
    /\ hist.calls = 2

-----------------------------------------------------------------------------
(* Convolution shapes *)

\* The output extent of the convolution shape formula along one axis.
FormulaExtent(in, kernel, stride, pad, dil) ==
    ((in + 2 * pad - dil * (kernel - 1) - 1) \div stride) + 1

\* The graph of the last run is a convolution graph.
ConvGraphBuilt ==
    last.op \in {"benchmarkConvFprop", "benchmarkConvWGrad",
                 "benchmarkConvDGrad", "sampleWGradStrided"}

-----------------------------------------------------------------------------
(* The exit code of the benchmark driver *)

\* The command line of the run was rejected by a validator or by the
\* exclusion rule of --fp16 and --bf16.
RejectedByOptions == CLI11_PARSE(last.argv) # "ok"

\* The run failed: an option was rejected, a check of the driver failed, a
\* library call returned an error, or an exception was thrown.
DriverRunFailed ==
    \/ RejectedByOptions
    \/ ~DriverChecks(last.argv)
    \/ last.lib # "ok"

\* C24: the exit code of the benchmark driver is 0 when the benchmark
\* completes successfully and 1 on any validation or runtime error (an option
\* that fails its validator or exclusion rule, a failed argument check of
\* the driver, an error of validate / compile / execute, an exception).
C24_DriverExitCode ==
    last.op = "main"
    => /\ ~DriverRunFailed => last.code = 0
       /\ DriverRunFailed => last.code = 1

\* A run whose --iter fails its validator, which ends before the driver's
\* own checks with another code than 0.
C24_Witness ==
    /\ last.op = "main"
    /\ ~kIsPositiveInteger(last.argv.iter)
    /\ last.steps = <<>>
    /\ last.code # 0

-----------------------------------------------------------------------------
(* What the benchmark driver rejects before it does anything *)

\* The command line of the run is one of those the driver rejects.
DriverRejects(a) ==
    \/ a.fp16 /\ a.bf16
    \/ a.bias /\ a.mode # 1
    \/ \E layout \in {a.imageLayout, a.filterLayout, a.outputLayout} :
           Len(layout) # a.s + 2
    \/ a.s = 3 /\ \E i \in 1..5 : a.depth[i] = NotSet
    \/ a.c % a.g # 0 \/ a.k % a.g # 0

\* C25: the driver rejects --fp16 with --bf16, --bias with a mode other
\* than 1, a --spatial_dim that does not match the length of one of the three
\* layouts, a 3D run with one of in_d, fil_d, conv_stride_d, pad_d,
\* dilation_d unset, and a group count that does not divide in_channels and
\* out_channels: the run exits with a code other than 0 and has created no
\* handle, built no graph and invoked no compiler.
C25_RejectedBeforeAnyWork ==
    last.op = "main" /\ DriverRejects(last.argv)
    => /\ last.code # 0
       /\ \A i \in 1..Len(last.steps) :
             last.steps[i] \notin {"Handle::create", "graph", "compile"}

\* A run of valid options whose group count divides out_channels but not
\* in_channels, with a library that would succeed.
C25_Witness ==
    /\ last.op = "main"
    /\ CLI11_PARSE(last.argv) = "ok"
    /\ last.argv.c % last.argv.g # 0 /\ last.argv.k % last.argv.g = 0
    /\ last.argv.s = 2 /\ Len(last.argv.outputLayout) = 4
    /\ ~last.argv.bias
    /\ last.lib = "ok"
    /\ last.code = 1 /\ last.steps = <<>>

-----------------------------------------------------------------------------
(* What a cache hit returns *)

\* The last call was a getCompiledArtifact that reported a cache hit.
ReportedHit ==
    last.op = "getCompiledArtifact" /\ last.err = "ok"
    /\ last.reCompiled = "false"

\* What a successful compiler run on the assembly and the command of the
\* last call leaves at the output path of the current graph name.
CurrentArtifact ==
    Vmfb(last.asm,
         buildCompileCommand(last.backend,
                             GetPath(name, IREE_COMPILE_INPUT_FILENAME),
                             GetPath(name, IREE_COMPILE_OUTPUT_FILENAME)))

\* C26: when getCompiledArtifact reports a cache hit, the file at the path
\* it returns is the product of a successful compiler run on exactly the
\* assembly and the command of this call, whatever calls came before.
C26_HitIsCurrentArtifact ==
    ReportedHit => CacheFile_read(fs, last.ret) = CurrentArtifact

\* The third call of a run reports a hit on the assembly that the call
\* before it failed to compile.
C26_Witness ==
    /\ ReportedHit
    /\ hist.calls = 3 /\ hist.faults = 1
    /\ last.prev = "other"
    /\ CacheFile_read(fs, GetPath(name, IREE_COMPILE_INPUT_FILENAME))
          = last.asm

-----------------------------------------------------------------------------
(* The order of the steps on a cache miss *)

\* A getCompiledArtifact call that found no valid cache.
MissStep == GetCompiledArtifactStep /\ last'.vc = "miss"

\* The paths of the cache files of the graph the call was made on.
InputPathOf(o) == GetPath(o.gname, IREE_COMPILE_INPUT_FILENAME)

OutputPathOf(o) == GetPath(o.gname, IREE_COMPILE_OUTPUT_FILENAME)

CommandPathOf(o) == GetPath(o.gname, IREE_COMPILE_COMMAND_FILENAME)

\* C27: on a cache miss the assembly is written to the input file, the
\* command is built and written to the command file, then the compiler is
\* invoked exactly once, and the cache record is replaced only after the
\* compiler has exited with zero; a failure to create or write a file ends
\* the call before the compiler is invoked.  (The compiler reads the input
\* file when it is invoked: what it read is what had been written by then.)
C27_MissOrder ==
    [][MissStep =>
        /\ last'.fail # "none"
             => /\ last'.runs = <<>>
                /\ last'.err = "FileSystemFailure"
                /\ cache' = cache
        /\ last'.fail = "none"
             => /\ Len(last'.runs) = 1
                /\ last'.runs[1].asm = last'.asm
                /\ last'.runs[1].cmd
                     = buildCompileCommand(last'.backend, InputPathOf(last'),
                                           OutputPathOf(last'))
                /\ CacheFile_read(fs', InputPathOf(last')) = last'.asm
                /\ CacheFile_read(fs', CommandPathOf(last'))
                     = last'.runs[1].cmd
                /\ last'.exit = "zero"
                     => /\ last'.err = "ok"
                        /\ cache' = CachedAssets(InputPathOf(last'),
                                                 OutputPathOf(last'),
                                                 CommandPathOf(last'),
                                                 last'.remove)
                /\ last'.exit # "zero"
                     => last'.err = "CompileFailure" /\ cache' = cache
    ]_vars

\* A miss of a Graph that holds a record, in which the write to the command
\* file failed: the record is the one of the call before.
C27_Witness ==
    /\ last.op = "getCompiledArtifact" /\ last.vc = "miss"
    /\ last.fail = "writeCommand"
    /\ last.runs = <<>>
    /\ cache.set
    /\ CacheFile_read(fs, InputPathOf(last)) = last.asm

-----------------------------------------------------------------------------
(* The flag of a validated graph and later modifications *)

\* The builder and setter calls, and the rename of a tensor.
ModifyingOps ==
    {"tensor", "convFProp", "setName", "tensorSetName"} \cup ContextSetters

ModifyStep == last'.op \in ModifyingOps

\* C28: once validate() has succeeded, no builder or setter call (tensor,
\* convFProp, setName, the three data type setters, a change of a TensorAttr
\* through its shared reference) clears isValidated; emitAsm() and compile()
\* directly after such a call are accepted without a new validate().
C28_ValidatedIsSticky ==
    [][/\ ModifyStep => isValidated' = isValidated
       /\ isValidated /\ last.op \in ModifyingOps /\ EmitAsmStep
            => last'.err = "ok"
       /\ isValidated /\ last.op \in ModifyingOps /\ CompileStep
            => last'.err # "NotValidated"
    ]_vars

\* emitAsm has succeeded directly after a tensor was added to a validated
\* graph: the tensor is in no sorted view yet.
C28_Witness ==
    /\ last.op = "emitAsm" /\ last.err = "ok"
    /\ \E t \in inputs : \A i \in 1..Len(inputsSorted) : inputsSorted[i] # t

-----------------------------------------------------------------------------
(* The sorted views after validate *)

\* A view holds exactly the tensors of the set, each once, in ascending
\* order of their current names.
IsSortedViewOf(ts, sorted, set) ==
    /\ {sorted[i] : i \in 1..Len(sorted)} = set
    /\ \A i, j \in 1..Len(sorted) : i # j => sorted[i] # sorted[j]
    /\ Ordered(ts, sorted)

SuccessfulValidateStep == ValidateStep /\ last'.err = "ok"

\* C30 as stated: after every successful validate(), whatever builder calls,
\* renames and validate() calls came before, fullGraphInputsSorted is the
\* sorted view of fullGraphInputs and fullGraphOutputsSorted that of
\* fullGraphOutputs.
C30_ViewsSortedAfterValidate ==
    last.op = "validate" /\ last.err = "ok"
    => /\ IsSortedViewOf(tensors, inputsSorted, inputs)
       /\ IsSortedViewOf(tensors, outputsSorted, outputs)

\* C30, amended: a successful validate() that finds both views in the
\* order of the current names of their tensors (as they are when no tensor
\* was renamed out of order after a validate() had inserted it) leaves each
\* view holding exactly the tensors of its set, each once, in ascending
\* order of name.
C30_ViewsSortedIfInOrder ==
    [][SuccessfulValidateStep
       /\ Ordered(tensors, inputsSorted) /\ Ordered(tensors, outputsSorted)
       => /\ IsSortedViewOf(tensors', inputsSorted', inputs')
          /\ IsSortedViewOf(tensors', outputsSorted', outputs')
    ]_vars

\* A second successful validate() of a graph to which a tensor was added,
\* and in which a tensor was renamed in order, after the first: both inputs
\* are in the view, the renamed one first.
C30_Witness ==
    /\ last.op = "validate" /\ last.err = "ok"
    /\ Len(inputsSorted) = 2
    /\ tensors[inputsSorted[1]].name = "a"
    /\ tensors[inputsSorted[2]].name = "a_Y"
    /\ inputsSorted[1] > inputsSorted[2]

-----------------------------------------------------------------------------
(* The session across a compile that returns early *)

\* Graph::compile returns NotValidated, the error of emitAsm or the error of
\* getCompiledArtifact (a cache file error, CompileFailure) before it calls
\* createPerGraphSession (graph.h 82-90): the session is the one the Graph
\* held before the call.  What a failing createPerGraphSession leaves in
\* session_ is decided by its definition in fusilli/backend/runtime.h.
ReturnedBeforeSession ==
    last'.err \in {"NotValidated", "FileSystemFailure", "CompileFailure"}

CompileErrorBeforeSessionKeepsSession ==
    [][CompileStep /\ ReturnedBeforeSession => session' = session]_vars

\* A compile has returned a cache file error on a Graph that holds the
\* session of an earlier successful compile.
CompileErrorBeforeSessionReached ==
    /\ last.op = "compile" /\ last.err = "FileSystemFailure"
    /\ hist.compiled /\ session # "none"

-----------------------------------------------------------------------------
(* The files of the cache record while the Graph is alive *)

\* C31: after a successful compile, every file named in the current cache
\* record of the Graph is on disk for as long as the Graph is alive, also
\* after a recompile that replaces a record created with remove = true at
\* the same paths; no step other than the destruction of the Graph unlinks
\* a file.
C31_RecordFilesOnDisk ==
    /\ [](GraphAlive /\ hist.compiled
            => \A p \in FilesOf(cache) : Exists(fs, p))
    /\ [][(\E p \in AllPaths : Unlinked(p)) => GraphDestroyStep]_vars

\* A second compile has succeeded on a live Graph whose record was made
\* with remove = true: the output file of the current record is not on
\* disk.
C31_Witness ==
    /\ GraphAlive
    /\ last.op = "compile" /\ last.err = "ok"
    /\ hist.compiles = 2
    /\ cache.set /\ ~Exists(fs, cache.output)

-----------------------------------------------------------------------------
(* Ownership of views by Buffers *)

\* The step releases a reference of view v.
ReleasedIn(v) == views'[v].refs < views[v].refs

\* The step is a call on a Buffer: which call, and on which Buffer.
BufferStep(op) == last'.op = op /\ last'.obj \in DOMAIN buffers

\* reset(v) releases the view the Buffer held before exactly once, nothing
\* if it held none, touches no other view, and leaves the Buffer holding v.
ResetReleasesOld ==
    BufferStep("reset")
    => LET old == buffers[last'.obj].view
       IN  /\ buffers'[last'.obj].view = last'.view
           /\ \A v \in DOMAIN views :
                 views'[v].refs = views[v].refs - Count(v = old)

\* The source of a move holds nothing after it, and the target holds what
\* the source held.
MovedFromIsEmpty ==
    last'.op \in {"move", "moveAssign"}
    => /\ buffers'[last'.src].view = NullView
       /\ buffers'[last'.obj].view = buffers[last'.src].view

OneReferencePerBuffer ==
    \A v \in DOMAIN views : views[v].refs = views[v].ext + Owners(buffers, v)

-----------------------------------------------------------------------------
(* Concurrent FusilliHandle::create *)

\* The handle objects that exist, those inside create and inside their
\* destructor included.
HandleObjects == {h \in DOMAIN handles : handles[h].alive}

-----------------------------------------------------------------------------
(* The device of a handle and the shared instance *)

\* The devices that exist.
LiveDevices == {d \in DOMAIN devices : devices[d].refs > 0}

\* The step is the given step of the handle observed.
MemberStep(op) == last'.op = op /\ last'.obj \in DOMAIN handles

\* C34: the device of a handle is released before the handle drops its
\* reference to the shared instance; a moved-from handle releases nothing;
\* hence the instance is never destroyed while a device created from it is
\* alive, and each device is released exactly once.
C34_DeviceBeforeInstance ==
    /\ [](\A d \in LiveDevices : devices[d].instance \in LiveInstances)
    /\ [](\A d \in DOMAIN devices :
            /\ devices[d].refs \in {0, 1}
            /\ devices[d].refs
                 = Cardinality({h \in HandleObjects : handles[h].device = d
                                   /\ handles[h].pc # "deviceGone"}))
    /\ [][/\ (MemberStep("~instance_")
                => handles[last'.obj].device \notin LiveDevices)
           /\ ((/\ last'.op \in {"~device_", "~instance_"}
                 /\ last'.obj \in DOMAIN handles
                 /\ handles[last'.obj].instance = 0
                 /\ handles[last'.obj].device = 0)
                => devices' = devices /\ instanceRefs' = instanceRefs)
       ]_vars

\* A move assignment from a moved-from handle has made its target give up
\* the last reference to the instance: the instance is gone and the device
\* of the target is still alive.
C34_Witness ==
    /\ last.op = "moveAssignInstance"
    /\ handles[last.obj].device \in LiveDevices
    /\ devices[handles[last.obj].device].instance \notin LiveInstances

-----------------------------------------------------------------------------
(* Graph names of concurrent driver runs *)

\* Two runs of the driver, one after the other in the observation.
TwoRuns == last.op = "benchmark" /\ last.prev = "benchmark"

\* C35: the graph names the driver builds are collision-free.  Two runs
\* whose graphs generate different assembly (they differ in mode, a shape,
\* stride, padding, dilation or group option, a layout, bias, or the element
\* type selected by --fp16 / --bf16 / neither) have different graph names,
\* and so different cache paths.
C35_DriverNamesCollisionFree ==
    TwoRuns /\ last.ret # last.asm
    => /\ last.from # last.gname
       /\ \A f \in FileNames : GetPath(last.from, f) # GetPath(last.gname, f)

\* Two runs with different assembly (the element type of the tensors
\* differs) and the same graph name.
C35_Witness ==
    /\ TwoRuns
    /\ last.ret # last.asm
    /\ last.from = last.gname
    /\ GetPath(last.from, IREE_COMPILE_INPUT_FILENAME)
          = GetPath(last.gname, IREE_COMPILE_INPUT_FILENAME)

-----------------------------------------------------------------------------
(* Names and order of the operations a builder adds *)

\* The name of the operation convFProp adds for an attribute named n.
OpName(n) ==
    IF n = "" THEN "conv_fprop_" \o ToString(Len(subNodes)) ELSE n

\* The node a call of convFProp has appended.
Appended == subNodes'[Len(subNodes) + 1]

\* One node is appended at the end of the sub-nodes, named after the
\* attribute or after the number of nodes before it, with x and w bound.
OneNodeAtEnd(x, w, n) ==
    /\ Len(subNodes') = Len(subNodes) + 1
    /\ SubSeq(subNodes', 1, Len(subNodes)) = subNodes
    /\ Appended.name = OpName(n)
    /\ Appended.X = x
    /\ Appended.W = w

\* A new virtual tensor <opname>_Y is bound as the Y of the node; no other
\* tensor is created.
NewVirtualY(n) ==
    /\ Len(tensors') = Len(tensors) + 1
    /\ Appended.Y = Len(tensors) + 1
    /\ tensors'[Appended.Y].name = OpName(n) \o "_Y"
    /\ tensors'[Appended.Y].isVirtual

\* Tensor t keeps its name when it has one and is named nm when it has none.
NamedOnce(t, nm) ==
    tensors'[t].name = IF tensors[t].name = "" THEN nm ELSE tensors[t].name

\* Tensors that are not an operand of the call keep their names.
OthersKeepNames(x, w) ==
    \A t \in DOMAIN tensors \ {x, w} : tensors'[t].name = tensors[t].name

-----------------------------------------------------------------------------
(* The permutation lists of the emitter *)

Emitted == last.op = "emitAsm"

Identity(n) == [i \in 1..n |-> i - 1]

\* C37: for every tensor the emitter permutes, the emitted list applied to
\* the dims of the operand type gives the dims of the result type: the input
\* list takes the dims of the function parameter to the logical dims, the
\* outbound list takes the logical dims of a graph output to the dims of the
\* destination parameter; the two lists undo each other for tensors of the
\* same stride order; both are the identity for a contiguous tensor.
C37_PermutesMatchTypes ==
    Emitted =>
      LET p == last.dims
      IN  /\ permute(p.param, p.permuteIn) = p.permIn
          /\ p.permIn = p.aDim
          /\ permute(p.resultPerm, p.permuteOut) = p.result
          /\ p.result = p.dest
          /\ (strideOrder(p.aDim, p.aStride) = strideOrder(p.yDim, p.yStride)
              => /\ permute(p.permuteIn, p.permuteOut) = Identity(Len(p.aDim))
                 /\ permute(p.permuteOut, p.permuteIn) = Identity(Len(p.aDim)))
          /\ (IsContiguous(p.aDim, p.aStride)
              => p.permuteIn = Identity(Len(p.aDim)))
          /\ (IsContiguous(p.yDim, p.yStride)
              => p.permuteOut = Identity(Len(p.yDim)))

\* The data gradient of the lit test: dy comes in as [16,64,32,256] and is
\* permuted by [0,3,1,2] to [16,256,64,32]; dx goes out from [16,128,64,32]
\* by [0,2,3,1] to [16,64,32,128].
C37_Witness ==
    /\ Emitted
    /\ last.dims.param = <<16, 64, 32, 256>>
    /\ last.dims.permuteIn = <<0, 3, 1, 2>>
    /\ last.dims.permIn = <<16, 256, 64, 32>>
    /\ last.dims.permuteOut = <<0, 2, 3, 1>>
    /\ last.dims.dest = <<16, 64, 32, 128>>

=============================================================================
